---------------------------- MODULE Spec2Model ----------------------------
(***************************************************************************)
(* Contract-Intelligence-Parser: the regex extraction pipeline             *)
(* (app/utils/pdf_parser.py), the pydantic records it fills                *)
(* (app/models.py), the processing service                                 *)
(* (app/services/contract_service.py) and the upload / read endpoints      *)
(* (app/main.py).                                                          *)
(*                                                                         *)
(* Representation.                                                         *)
(*  - A Python Optional is a tuple: None is <<>>, a present value v is     *)
(*    <<v>>.  Every pydantic field holds such a tuple.                     *)
(*  - A float is an exact fraction [num, den] in lowest terms.             *)
(*  - A dict is a function from its keys (strings) to its values.          *)
(*  - A document text is a sequence of clauses taken from the lexicon      *)
(*    Sentence; clause n of the text reads "<n>. <sentence>" and clauses   *)
(*    are joined by newlines.  For every pattern of the parser the table   *)
(*    <pattern>_in(s) lists what the compiled regular expression returns   *)
(*    on the clause of sentence s; on such texts no pattern matches        *)
(*    across a clause boundary, so findall over the text is the            *)
(*    concatenation of the clause tables.                                  *)
(*  - A numeric token captured by a pattern is the tuple of its            *)
(*    characters, converted by float / int as Python converts it.          *)
(*  - A callable that can raise returns [raised, value, error].            *)
(***************************************************************************)
EXTENDS Integers, Sequences, FiniteSets, TLC

\* Longest document text, in clauses.
MaxClauses == 2

\* Number of contract ids the upload endpoint can hand out.
MaxContracts == 2

\* settings.max_file_size (50 MB)
max_file_size == 52428800

---------------------------------------------------------------------------
\* Python values

None == <<>>

Some(v) == <<v>>

\* the test "x is not None" in place of bool(x): the empty string passes it
IsNotNoneStr(o) == o # None

\* bool(x) of an Optional[str]
TruthyStr(o) == o # None /\ o[1] # ""

\* bool(x) of an Optional[float]
TruthyNum(o) == o # None /\ o[1].num # 0

\* bool(x) of an Optional[dict]
TruthyDict(o) == o # None /\ DOMAIN o[1] # {}

\* bool(x) of an Optional[list]
TruthyList(o) == o # None /\ Len(o[1]) > 0

\* bool(x) of an Optional[BaseModel]: a model instance is always truthy
TruthyModel(o) == o # None

Ok(v) == [raised |-> FALSE, value |-> v, error |-> ""]

Raise(e) == [raised |-> TRUE, value |-> None, error |-> e]

RECURSIVE GCD(_, _)
GCD(a, b) == IF b = 0 THEN a ELSE GCD(b, a % b)

\* the float n/d
Q(n, d) == LET g == GCD(n, d) IN [num |-> n \div g, den |-> d \div g]

Zero == Q(0, 1)

QAdd(a, b) == Q(a.num * b.den + b.num * a.den, a.den * b.den)

\* the amount without the multiplication
keep_amount(a, k) == a

QMulInt(a, k) == Q(a.num * k, a.den)

QDivInt(a, k) == Q(a.num, a.den * k)

QPositive(a) == a.num > 0

EmptyDict == <<>>

\* one of d.values() in place of their sum
any_value(d) == IF DOMAIN d = {} THEN Zero ELSE d[CHOOSE x \in DOMAIN d : TRUE]

\* sum(d.values())
RECURSIVE SumValues(_)
SumValues(d) ==
  IF DOMAIN d = {} THEN Zero
  ELSE LET k == CHOOSE x \in DOMAIN d : TRUE
       IN QAdd(d[k], SumValues([x \in DOMAIN d \ {k} |-> d[x]]))

\* d[k] = v
DictSet(d, k, v) == [x \in DOMAIN d \cup {k} |-> IF x = k THEN v ELSE d[x]]

RECURSIVE Flatten(_)
Flatten(ss) == IF ss = <<>> THEN <<>> ELSE Head(ss) \o Flatten(Tail(ss))

\* pattern.findall(text)
FindAll(M(_), text) == Flatten([i \in 1..Len(text) |-> M(text[i])])

\* re.search(keywords, text) is not None
Search(K(_), text) == \E i \in 1..Len(text) : K(text[i])

\* pattern.search(text): the first match, if any
SearchFirst(M(_), text) ==
  LET all == FindAll(M, text) IN IF all = <<>> THEN None ELSE Some(all[1])

---------------------------------------------------------------------------
\* float() and int() of a captured token

Digits == <<"0", "1", "2", "3", "4", "5", "6", "7", "8", "9">>

IsDigit(c) == \E i \in 1..10 : Digits[i] = c

DigitValue(c) == (CHOOSE i \in 1..10 : Digits[i] = c) - 1

RECURSIVE DigitsValue(_)
DigitsValue(ds) ==
  IF ds = <<>> THEN 0
  ELSE DigitsValue(SubSeq(ds, 1, Len(ds) - 1)) * 10 + DigitValue(ds[Len(ds)])

RECURSIVE Pow10(_)
Pow10(n) == IF n = 0 THEN 1 ELSE 10 * Pow10(n - 1)

\* amount.replace(',', '')
replace_commas(tok) == SelectSeq(tok, LAMBDA c : c # ",")

\* float(s) raises ValueError unless s is digits with at most one point and at least one digit
float_raises(s) ==
  \/ \A i \in 1..Len(s) : ~IsDigit(s[i])
  \/ \E i \in 1..Len(s) : ~IsDigit(s[i]) /\ s[i] # "."
  \/ \E i, j \in 1..Len(s) : i # j /\ s[i] = "." /\ s[j] = "."

float_error(s) ==
  CASE s = <<>> -> "could not convert string to float: ''"
    [] s = <<".">> -> "could not convert string to float: '.'"
    [] OTHER -> "could not convert string to float"

float(s) ==
  LET p == IF \E i \in 1..Len(s) : s[i] = "." THEN CHOOSE i \in 1..Len(s) : s[i] = "." ELSE Len(s) + 1
      ip == SubSeq(s, 1, p - 1)
      fp == SubSeq(s, p + 1, Len(s))
  IN Q(DigitsValue(ip \o fp), Pow10(Len(fp)))

\* int(s) of a token matched by [0-9]+ or \d+
int(s) == DigitsValue(s)

\* the first of the tokens that float(token.replace(',', '')) rejects, if any
FirstFloatError(toks) ==
  IF \E i \in 1..Len(toks) : float_raises(replace_commas(toks[i]))
  THEN LET i == CHOOSE k \in 1..Len(toks) :
                  /\ float_raises(replace_commas(toks[k]))
                  /\ \A j \in 1..(k - 1) : ~float_raises(replace_commas(toks[j]))
       IN Some(float_error(replace_commas(toks[i])))
  ELSE None

---------------------------------------------------------------------------
\* pydantic.BaseModel

NoAlias == <<>>

\* Model(**kw): a keyword that names a field, or its alias, sets it; every other
\* keyword is ignored; a field no keyword sets holds its default
BaseModel(defaults, alias, kw) ==
  [f \in DOMAIN defaults |->
     IF f \in DOMAIN alias /\ alias[f] \in DOMAIN kw THEN kw[alias[f]]
     ELSE IF f \in DOMAIN kw THEN kw[f]
     ELSE defaults[f]]

NoKw == <<>>

SetAttrError(cls, name) ==
  CASE cls = "PaymentStructure" /\ name = "discount_terms" ->
         "\"PaymentStructure\" object has no field \"discount_terms\""
    [] OTHER -> "object has no such field"

\* obj.name = value for each <<name, value>> of assigns, in order: BaseModel.__setattr__
\* raises ValueError for a name that is not a field, and stores any value in one that is
RECURSIVE SetAttrs(_, _, _)
SetAttrs(cls, obj, assigns) ==
  IF assigns = <<>> THEN Ok(obj)
  ELSE LET name == Head(assigns)[1]
           value == Head(assigns)[2]
       IN IF name \in DOMAIN obj
          THEN SetAttrs(cls, [obj EXCEPT ![name] = value], Tail(assigns))
          ELSE Raise(SetAttrError(cls, name))

\* matches[:1]
FirstOf(matches) == IF matches = <<>> THEN <<>> ELSE <<matches[1]>>

\* a PartyInfo built from the name alone
PartyInfo_name_only(kw) ==
  BaseModel([name |-> None, address |-> None, phone |-> None, email |-> None,
             tax_id |-> None, account_number |-> None], NoAlias, [name |-> kw.name])

PartyInfo(kw) ==
  BaseModel([name |-> None, address |-> None, phone |-> None, email |-> None,
             tax_id |-> None, account_number |-> None], NoAlias, kw)

Parties(kw) ==
  BaseModel([service_provider |-> None, customer |-> None,
             authorized_representatives |-> None], NoAlias, kw)

BillingContact(kw) ==
  BaseModel([name |-> None, title |-> None, email |-> None, phone |-> None], NoAlias, kw)

AccountInfo(kw) ==
  BaseModel([account_number |-> None, billing_contact |-> None], NoAlias, kw)

LineItem(kw) ==
  BaseModel([service |-> None, quantity |-> None, unit |-> None, unit_price |-> None,
             monthly_total |-> None], NoAlias, kw)

FinancialDetails(kw) ==
  BaseModel([line_items |-> None, monthly_costs |-> None, one_time_costs |-> None,
             total_monthly |-> None, total_one_time |-> None,
             annual_contract_value |-> None, currency |-> Some("USD")], NoAlias, kw)

BankingInfo(kw) ==
  BaseModel([bank |-> None, account |-> None, routing |-> None], NoAlias, kw)

PaymentStructure(kw) ==
  BaseModel([payment_terms |-> None, payment_schedule |-> None, payment_due_date |-> None,
             payment_method |-> None, late_payment_terms |-> None,
             late_payment_fee |-> None, banking_info |-> None], NoAlias, kw)

RevenueClassification(kw) ==
  BaseModel([type |-> None, contract_term |-> None, billing_cycle |-> None,
             auto_renewal |-> None, termination_notice |-> None,
             pricing_adjustments |-> None], NoAlias, kw)

ResponseTimes(kw) ==
  BaseModel([critical_issues |-> None, high_priority |-> None, medium_priority |-> None,
             low_priority |-> None],
            [critical_issues |-> "Critical issues", high_priority |-> "High priority",
             medium_priority |-> "Medium priority", low_priority |-> "Low priority"], kw)

PerformanceMetrics(kw) ==
  BaseModel([system_response_time |-> None, backup_success_rate |-> None,
             security_patch_deployment |-> None],
            [system_response_time |-> "System response time",
             backup_success_rate |-> "Backup success rate",
             security_patch_deployment |-> "Security patch deployment"], kw)

ServiceCredits(kw) ==
  BaseModel([availability_penalty |-> None, response_time_penalty |-> None,
             maximum_credits |-> None], NoAlias, kw)

SLATerms(kw) ==
  BaseModel([uptime_commitment |-> None, response_times |-> None,
             performance_metrics |-> None, service_credits |-> None], NoAlias, kw)

GapAnalysis(kw) ==
  BaseModel([missing_fields |-> None, incomplete_fields |-> None, notes |-> None], NoAlias, kw)

ExtractedData(kw) ==
  BaseModel([parties |-> None, account_info |-> None, financial_details |-> None,
             payment_structure |-> None, revenue_classification |-> None,
             sla_terms |-> None], NoAlias, kw)

\* the sentences in which the word "annual" appears, in place of annually|yearly|per year
kw_annual_word_in(s) == s \in {"SAnnualValue", "SAnnualZero", "SInvoicedAnnually"}

---------------------------------------------------------------------------
\* The lexicon and what each pattern of the parser returns on each of its clauses

Sentence ==
  [ SConsultant |-> "Consultant: Acme Consulting LLC.",
    SClient |-> "Client: Beta Corp Inc (the Client).",
    SProvider |-> "Service Provider: Gamma Services Ltd.",
    SDelta |-> "Delta Systems Inc.",
    SOmega |-> "Omega Partners.",
    SWithZeta |-> "This Agreement is made with Zeta Holdings Corp (the Customer).",
    SBetween |-> "Agreement between Acme Consulting LLC, and Beta Corp Inc.",
    STheCompany |-> "The Company shall pay.",
    SContactA |-> "Email: a@acme.com. Phone: (555) 123-4567.",
    SContactB |-> "Email: b@beta.org.",
    SHours10 |-> "Consulting: 10 hours ($1000).",
    SHours0 |-> "Support: 0 hours ($500).",
    SFixed |-> "Security Assessment - $5000/fixed.",
    SMonthlyTotal |-> "Monthly Total: $2000.",
    SSetupFee |-> "Setup Fee: $300.",
    SAnnualValue |-> "Annual Value: $50,000.",
    SAnnualZero |-> "Annual Value: $0.",
    STerm24 |-> "Term: 24 months.",
    SNet45 |-> "Net 45 days.",
    SDue30 |-> "Payment due in 30 days.",
    SMethod |-> "Payment Method: Wire transfer.",
    SBilledQuarterly |-> "Invoices are billed quarterly.",
    SLateFee |-> "Late fee of 1.5%.",
    SDiscount |-> "Early payment discount of 2%.",
    SBank |-> "Bank: First National.",
    SUptime |-> "99.9% uptime.",
    SCritical |-> "Critical issues in 2 hours.",
    SPerf |-> "System response time under 2 seconds.",
    SCredit |-> "Service credit of 5% for availability below 99.5%.",
    SBillingContact |-> "Billing contact: Jane Roe.",
    SAccountId |-> "Agreement ID: AG-100.",
    SBadAmount |-> "Amounts in $, EUR or GBP.",
    SLumpSum |-> "One-time lump sum.",
    SAddressA |-> "Office: 100 Main Street, Springfield 12345. Tax ID: 12-3456789.",
    SAddressB |-> "Office: 200 Oak Avenue, Shelbyville 54321. EIN: 98-7654321.",
    SPhoneB |-> "Billing phone: (555) 987-6543.",
    SInvoicedAnnually |-> "Fees are invoiced annually.",
    SAccount |-> "Account: 12345678. Routing: 123456789. SWIFT: ABCDUS33.",
    SRenewal |-> "Auto-renewal: 12-month terms.",
    STermination |-> "Termination requires 30 days notice.",
    SPricing |-> "Price increase of 3%.",
    SHigh |-> "High priority in 4 hours.",
    SMedium |-> "Medium priority in 12 hours.",
    SLow |-> "Low priority in 2 days.",
    SBackup |-> "Backup success rate of 99%.",
    SMethodBlank |-> "Payment Method:  .",
    SClientServices |-> "Client Services Inc.",
    SZinc |-> "Zinc coating is excluded.",
    SConsultantRun |-> "Consultant: Acme Consulting LLC\nBeta Corp Inc is the customer.",
    SConsultantMay |-> "Consultant: Mayfield Consulting LLC.",
    SToOmega |-> "Deliverables go to: Omega Partners.",
    SContacts2 |-> "Email: a@acme.com, b@beta.org. Phone: (555) 123-4567, (555) 987-6543.",
    SPerMonth |-> "Charges accrue per month.",
    SOneTimeCharge |-> "A one time charge applies." ]

emails_in(s) ==
  CASE s = "SContactA" -> <<"a@acme.com">>
    [] s = "SContactB" -> <<"b@beta.org">>
    [] s = "SContacts2" -> <<"a@acme.com", "b@beta.org">>
    [] OTHER -> <<>>

phones_in(s) ==
  CASE s = "SContactA" -> <<"(555) 123-4567">>
    [] s = "SPhoneB" -> <<"(555) 987-6543">>
    [] s = "SContacts2" -> <<"(555) 123-4567", "(555) 987-6543">>
    [] OTHER -> <<>>

addresses_in(s) ==
  CASE s = "SAddressA" -> <<"100 Main Street, Springfield 12345">>
    [] s = "SAddressB" -> <<"200 Oak Avenue, Shelbyville 54321">>
    [] OTHER -> <<>>

tax_ids_in(s) ==
  CASE s = "SAddressA" -> <<"12-3456789">>
    [] s = "SAddressB" -> <<"98-7654321">>
    [] OTHER -> <<>>

company_matches_in(s) ==
  CASE s = "SConsultant" -> <<" Acme Consulting LLC">>
    [] s = "SClient" -> <<" Beta Corp Inc">>
    [] s = "SProvider" -> <<" Gamma Services Ltd">>
    [] s = "SDelta" -> <<" Delta Systems Inc">>
    [] s = "SOmega" -> <<" Omega Partners">>
    [] s = "SWithZeta" -> <<" This Agreement is made with Zeta Holdings Corp">>
    [] s = "SBetween" -> <<" Agreement between Acme Consulting LLC", " and Beta Corp Inc">>
    [] s = "STheCompany" -> <<" The Company">>
    [] s = "SPricing" -> <<" Price inc">>
    [] s = "SClientServices" -> <<" Client Services Inc">>
    [] s = "SZinc" -> <<" Zinc">>
    [] s = "SConsultantRun" -> <<" Acme Consulting LLC\nBeta Corp Inc">>
    [] s = "SConsultantMay" -> <<" Mayfield Consulting LLC">>
    [] s = "SToOmega" -> <<" Omega Partners">>
    [] OTHER -> <<>>

broad_matches_in(s) ==
  CASE s = "SDelta" -> <<"Delta Systems Inc">>
    [] s = "SOmega" -> <<"Omega Partners">>
    [] s = "STheCompany" -> <<"The Company">>
    [] s = "SClientServices" -> <<"Client Services Inc">>
    [] s = "SConsultantRun" -> <<"Beta Corp Inc">>
    [] OTHER -> <<>>

consultant_match_in(s) ==
  CASE s = "SConsultant" -> <<"Acme Consulting LLC">>
    [] s = "SConsultantRun" -> <<"Acme Consulting LLC\nBeta Corp Inc">>
    [] s = "SConsultantMay" -> <<"Mayfield Consulting LLC">>
    [] OTHER -> <<>>

service_provider_match_in(s) ==
  CASE s = "SProvider" -> <<"Gamma Services Ltd">>
    [] OTHER -> <<>>

client_match_in(s) ==
  CASE s = "SClient" -> <<"Beta Corp Inc">>
    [] OTHER -> <<>>

customer_pattern_1_in(s) ==
  CASE s = "SClient" -> <<"Beta Corp Inc">>
    [] OTHER -> <<>>

customer_pattern_2_in(s) ==
  CASE s = "SBetween" -> <<"Beta Corp Inc">>
    [] OTHER -> <<>>

customer_pattern_3_in(s) ==
  CASE s = "SWithZeta" -> <<"Zeta Holdings Corp">>
    [] OTHER -> <<>>

currency_amounts_in(s) ==
  CASE s = "SHours10" -> <<<<"1", "0", "0", "0">>>>
    [] s = "SHours0" -> <<<<"5", "0", "0">>>>
    [] s = "SFixed" -> <<<<"5", "0", "0", "0">>>>
    [] s = "SMonthlyTotal" -> <<<<"2", "0", "0", "0", ".">>>>
    [] s = "SSetupFee" -> <<<<"3", "0", "0", ".">>>>
    [] s = "SAnnualValue" -> <<<<"5", "0", ",", "0", "0", "0", ".">>>>
    [] s = "SAnnualZero" -> <<<<"0", ".">>>>
    [] s = "SBadAmount" -> <<<<",">>>>
    [] OTHER -> <<>>

service_matches_in(s) ==
  CASE s = "SFixed" -> <<[service |-> " Security Assessment", rate |-> <<"5", "0", "0", "0">>, unit |-> "fixed"]>>
    [] OTHER -> <<>>

hourly_matches_in(s) ==
  CASE s = "SHours10" -> <<[service |-> " Consulting", hours |-> <<"1", "0">>, total |-> <<"1", "0", "0", "0">>]>>
    [] s = "SHours0" -> <<[service |-> " Support", hours |-> <<"0">>, total |-> <<"5", "0", "0">>]>>
    [] OTHER -> <<>>

monthly_matches_in(s) ==
  CASE s = "SMonthlyTotal" -> <<<<"2", "0", "0", "0", ".">>>>
    [] OTHER -> <<>>

setup_matches_in(s) ==
  CASE s = "SSetupFee" -> <<<<"3", "0", "0", ".">>>>
    [] OTHER -> <<>>

annual_matches_in(s) ==
  CASE s = "SAnnualValue" -> <<<<"5", "0", ",", "0", "0", "0", ".">>>>
    [] s = "SAnnualZero" -> <<<<"0", ".">>>>
    [] OTHER -> <<>>

term_matches_in(s) ==
  CASE s = "STerm24" -> <<<<"2", "4">>>>
    [] OTHER -> <<>>

payment_terms_matches_in(s) ==
  CASE s = "SNet45" -> <<"45">>
    [] OTHER -> <<>>

alt_matches_in(s) ==
  CASE s = "SDue30" -> <<"0">>
    [] OTHER -> <<>>

payment_method_matches_in(s) ==
  CASE s = "SMethod" -> <<"Wire transfer">>
    [] s = "SMethodBlank" -> <<" ">>
    [] OTHER -> <<>>

schedule_matches_in(s) ==
  CASE s = "SBilledQuarterly" -> <<"billed quarterly">>
    [] s = "SInvoicedAnnually" -> <<"invoiced annually">>
    [] OTHER -> <<>>

kw_monthly_in(s) == s \in {"SMonthlyTotal", "SPerMonth"}

kw_quarterly_in(s) == s \in {"SBilledQuarterly"}

kw_annually_in(s) == s \in {"SInvoicedAnnually"}

late_fee_matches_in(s) ==
  CASE s = "SLateFee" -> <<".5%">>
    [] OTHER -> <<>>

discount_matches_in(s) ==
  CASE s = "SDiscount" -> <<"2%">>
    [] OTHER -> <<>>

bank_matches_in(s) ==
  CASE s = "SBank" -> <<"First National">>
    [] OTHER -> <<>>

account_matches_in(s) ==
  CASE s = "SAccount" -> <<"12345678">>
    [] OTHER -> <<>>

routing_matches_in(s) ==
  CASE s = "SAccount" -> <<"123456789">>
    [] OTHER -> <<>>

swift_matches_in(s) ==
  CASE s = "SAccount" -> <<"ABCDUS33">>
    [] OTHER -> <<>>

account_number_matches_in(s) ==
  CASE s = "SAccountId" -> <<"AG-100">>
    [] OTHER -> <<>>

label_emails_in(s) ==
  CASE s = "SContactA" -> <<"a@acme.com">>
    [] s = "SContactB" -> <<"b@beta.org">>
    [] s = "SContacts2" -> <<"a@acme.com">>
    [] OTHER -> <<>>

billing_phones_in(s) ==
  CASE s = "SPhoneB" -> <<"(555) 987-6543">>
    [] OTHER -> <<>>

contact_matches_in(s) ==
  CASE s = "SBillingContact" -> <<"Jane Roe">>
    [] OTHER -> <<>>

renewal_matches_in(s) ==
  CASE s = "SRenewal" -> <<"12">>
    [] OTHER -> <<>>

kw_recurring_in(s) == s \in {"SMonthlyTotal", "SAnnualValue", "SAnnualZero", "SBilledQuarterly", "SInvoicedAnnually"}

kw_one_time_in(s) == s \in {"SLumpSum", "SOneTimeCharge"}

termination_matches_in(s) ==
  CASE s = "STermination" -> <<"0">>
    [] OTHER -> <<>>

pricing_matches_in(s) ==
  CASE s = "SPricing" -> <<"3%">>
    [] OTHER -> <<>>

uptime_matches_in(s) ==
  CASE s = "SUptime" -> <<"99.9%">>
    [] OTHER -> <<>>

critical_matches_in(s) ==
  CASE s = "SCritical" -> <<"2">>
    [] OTHER -> <<>>

high_matches_in(s) ==
  CASE s = "SHigh" -> <<"4">>
    [] OTHER -> <<>>

medium_matches_in(s) ==
  CASE s = "SMedium" -> <<"2">>
    [] OTHER -> <<>>

low_matches_in(s) ==
  CASE s = "SLow" -> <<"2">>
    [] OTHER -> <<>>

response_perf_in(s) ==
  CASE s = "SPerf" -> <<"2">>
    [] OTHER -> <<>>

backup_perf_in(s) ==
  CASE s = "SBackup" -> <<"9%">>
    [] OTHER -> <<>>

credit_matches_in(s) ==
  CASE s = "SCredit" -> <<[credit_percent |-> "5%", threshold |-> "99.5%"]>>
    [] OTHER -> <<>>


clean_company_name(s) ==
  CASE s = " Acme Consulting LLC" -> "Acme Consulting LLC"
    [] s = " Beta Corp Inc" -> "Beta Corp Inc"
    [] s = " Gamma Services Ltd" -> "Gamma Services Ltd"
    [] s = " Delta Systems Inc" -> "Delta Systems Inc"
    [] s = " Omega Partners" -> "Omega Partners"
    [] s = " This Agreement is made with Zeta Holdings Corp" -> "This Agreement is made with Zeta Holdings Corp"
    [] s = " Agreement between Acme Consulting LLC" -> "Agreement between Acme Consulting LLC"
    [] s = " and Beta Corp Inc" -> "Beta Corp Inc"
    [] s = " The Company" -> "The Company"
    [] s = " Price inc" -> "Price inc"
    [] s = " Client Services Inc" -> "Client Services Inc"
    [] s = " Zinc" -> "Zinc"
    [] s = " Acme Consulting LLC\nBeta Corp Inc" -> "Acme Consulting LLC Beta Corp Inc"
    [] s = " Mayfield Consulting LLC" -> "Mayfield Consulting LLC"
    [] s = "Delta Systems Inc" -> "Delta Systems Inc"
    [] s = "Omega Partners" -> "Omega Partners"
    [] s = "The Company" -> "The Company"
    [] s = "Client Services Inc" -> "Client Services Inc"
    [] s = "Beta Corp Inc" -> "Beta Corp Inc"
    [] s = "Acme Consulting LLC" -> "Acme Consulting LLC"
    [] s = "Acme Consulting LLC\nBeta Corp Inc" -> "Acme Consulting LLC Beta Corp Inc"
    [] s = "Mayfield Consulting LLC" -> "Mayfield Consulting LLC"
    [] s = "Gamma Services Ltd" -> "Gamma Services Ltd"
    [] s = "Zeta Holdings Corp" -> "Zeta Holdings Corp"

StrLen(s) ==
  CASE s = "Acme Consulting LLC" -> 19
    [] s = "Beta Corp Inc" -> 13
    [] s = "Gamma Services Ltd" -> 18
    [] s = "Delta Systems Inc" -> 17
    [] s = "Omega Partners" -> 14
    [] s = "This Agreement is made with Zeta Holdings Corp" -> 46
    [] s = "Agreement between Acme Consulting LLC" -> 37
    [] s = "The Company" -> 11
    [] s = "Price inc" -> 9
    [] s = "Client Services Inc" -> 19
    [] s = "Zinc" -> 4
    [] s = "Acme Consulting LLC Beta Corp Inc" -> 33
    [] s = "Mayfield Consulting LLC" -> 23
    [] s = "Zeta Holdings Corp" -> 18

LowerContains(s, term) ==
  <<s, term>> \in {<<"Client Services Inc", "client">>, <<"Mayfield Consulting LLC", "may">>}

LowerStartsWith(s, prefix) ==
  <<s, prefix>> \in {<<"This Agreement is made with Zeta Holdings Corp", "this ">>, <<"The Company", "the ">>}

squeeze(s) ==
  CASE s = " Security Assessment" -> "Security Assessment"
    [] s = " Consulting" -> "Consulting"
    [] s = " Support" -> "Support"
    [] s = "100 Main Street, Springfield 12345" -> "100 Main Street, Springfield 12345"
    [] s = "200 Oak Avenue, Shelbyville 54321" -> "200 Oak Avenue, Shelbyville 54321"

strip(s) ==
  CASE s = "Wire transfer" -> "Wire transfer"
    [] s = " " -> ""
    [] s = "First National" -> "First National"
    [] s = "Jane Roe" -> "Jane Roe"

fmt_net_days(x) ==
  CASE x = "45" -> "Net 45 days"

fmt_alt_net_days(x) ==
  CASE x = "0" -> "Net 0 days"

fmt_late_fee(x) ==
  CASE x = ".5%" -> ".5% per month on overdue amounts"

fmt_discount(x) ==
  CASE x = "2%" -> "2% discount for early payment"

fmt_months(x) ==
  CASE x = <<"2", "4">> -> "24 months"

fmt_renewal(x) ==
  CASE x = "12" -> "12-month terms"

fmt_notice(x) ==
  CASE x = "0" -> "0 days written notice"

fmt_pricing(x) ==
  CASE x = "3%" -> "Limited to 3% annually"

fmt_uptime(x) ==
  CASE x = "99.9%" -> "99.9% uptime guarantee"

fmt_hours(x) ==
  CASE x = "2" -> "2 hours"
    [] x = "4" -> "4 hours"

fmt_threshold(x) ==
  CASE x = "99.5%" -> "< 99.5% uptime"

fmt_credit_percentage(x) ==
  CASE x = "5%" -> "5% monthly fee credit"

fmt_credit_description(x) ==
  CASE x = "99.5%" -> "Service credit for uptime below 99.5%"

fmt_seconds(x) ==
  CASE x = "2" -> "< 2 seconds"

---------------------------------------------------------------------------
\* PDFParser._extract_parties

invalid_terms ==
  <<"vp of", "vice president", "manager", "director", "ceo", "cfo", "president of",
    "liability", "shall", "will", "may", "service provider", "customer", "client">>

determiners == <<"the ", "this ", "such ", "any ">>

\* the filter that keeps a cleaned candidate in valid_companies
is_valid_company(company) ==
  /\ StrLen(company) >= 5
  /\ ~\E i \in 1..Len(invalid_terms) : LowerContains(company, invalid_terms[i])
  /\ ~\E i \in 1..Len(determiners) : LowerStartsWith(company, determiners[i])

\* set(company_matches + broad_matches)
company_set(text) ==
  LET raw == FindAll(company_matches_in, text) \o FindAll(broad_matches_in, text)
  IN {raw[i] : i \in 1..Len(raw)}

\* list(s) of a set of strings: the iteration order follows the strings' hashes, which
\* are salted per interpreter process, so any order of the elements can come out
ListOfSet(S) ==
  {f \in [1..Cardinality(S) -> S] : \A i, j \in 1..Cardinality(S) : i # j => f[i] # f[j]}

\* the test a customer-pattern match has to pass
accepts_customer(match, service_provider_name) ==
  /\ match # None
  /\ LET potential_customer == clean_company_name(match[1])
     IN /\ Some(potential_customer) # service_provider_name
        /\ StrLen(potential_customer) >= 5
        /\ ~\E term \in {"service provider", "liability", "shall", "will"} :
               LowerContains(potential_customer, term)

\* order: the list that list(set(company_matches + broad_matches)) produced
_extract_parties(text, order) ==
  LET emails == FindAll(emails_in, text)
      phones == FindAll(phones_in, text)
      addresses == FindAll(addresses_in, text)
      tax_ids == FindAll(tax_ids_in, text)
      all_companies == [i \in 1..Len(order) |-> clean_company_name(order[i])]
      valid_companies == SelectSeq(all_companies, is_valid_company)
      consultant_match == SearchFirst(consultant_match_in, text)
      service_provider_match == SearchFirst(service_provider_match_in, text)
      client_match == SearchFirst(client_match_in, text)
      service_provider_name ==
        IF consultant_match # None THEN Some(clean_company_name(consultant_match[1]))
        ELSE IF service_provider_match # None
             THEN Some(clean_company_name(service_provider_match[1]))
        ELSE IF valid_companies # <<>> THEN Some(valid_companies[1])
        ELSE None
      service_provider ==
        PartyInfo([name |-> service_provider_name,
                   email |-> IF emails # <<>> THEN Some(emails[1]) ELSE None,
                   phone |-> IF phones # <<>> THEN Some(phones[1]) ELSE None,
                   address |-> IF addresses # <<>> THEN Some(squeeze(addresses[1])) ELSE None,
                   tax_id |-> IF tax_ids # <<>> THEN Some(tax_ids[1]) ELSE None])
      different == SelectSeq(valid_companies, LAMBDA c : Some(c) # service_provider_name)
      listed_customer ==
        IF client_match # None THEN Some(clean_company_name(client_match[1]))
        ELSE IF Len(valid_companies) > 1 /\ different # <<>> THEN Some(different[1])
        ELSE None
      customer_matches ==
        <<SearchFirst(customer_pattern_1_in, text), SearchFirst(customer_pattern_2_in, text),
          SearchFirst(customer_pattern_3_in, text)>>
      customer_name ==
        IF TruthyStr(listed_customer) THEN listed_customer
        ELSE IF \E i \in 1..3 : accepts_customer(customer_matches[i], service_provider_name)
             THEN LET i == CHOOSE k \in 1..3 :
                             /\ accepts_customer(customer_matches[k], service_provider_name)
                             /\ \A j \in 1..(k - 1) :
                                  ~accepts_customer(customer_matches[j], service_provider_name)
                  IN Some(clean_company_name(customer_matches[i][1]))
        ELSE listed_customer
      customer ==
        PartyInfo([name |-> customer_name,
                   email |-> IF Len(emails) > 1 THEN Some(emails[2]) ELSE None,
                   phone |-> IF Len(phones) > 1 THEN Some(phones[2]) ELSE None,
                   address |-> IF Len(addresses) > 1 THEN Some(squeeze(addresses[2])) ELSE None,
                   tax_id |-> IF Len(tax_ids) > 1 THEN Some(tax_ids[2]) ELSE None])
  IN SetAttrs("Parties", Parties(NoKw),
              (IF TruthyStr(service_provider_name)
               THEN <<<<"service_provider", Some(service_provider)>>>> ELSE <<>>)
              \o (IF TruthyStr(customer_name)
                  THEN <<<<"customer", Some(customer)>>>> ELSE <<>>))

---------------------------------------------------------------------------
\* PDFParser._extract_financial_details

\* unit.lower()
lower(s) ==
  CASE s \in {"hour", "Hour", "HOUR"} -> "hour"
    [] s \in {"fixed", "Fixed", "FIXED"} -> "fixed"
    [] s \in {"month", "Month", "MONTH"} -> "month"

\* for item in line_items: if item.unit == "fixed": one_time_costs[item.service] = item.unit_price
RECURSIVE add_fixed_fees(_, _)
add_fixed_fees(one_time_costs, line_items) ==
  IF line_items = <<>> THEN one_time_costs
  ELSE LET item == Head(line_items)
       IN add_fixed_fees(IF item.unit = Some("fixed")
                         THEN DictSet(one_time_costs, item.service[1], item.unit_price[1])
                         ELSE one_time_costs,
                         Tail(line_items))

service_line_item(m) ==
  LET unit_price == float(replace_commas(m.rate))
      unit_type == IF m.unit # "" THEN lower(m.unit) ELSE "hour"
  IN LineItem([service |-> Some(squeeze(m.service)),
               unit_price |-> Some(unit_price),
               unit |-> Some(unit_type),
               quantity |-> Some(1),
               monthly_total |-> IF unit_type = "fixed" THEN Some(unit_price) ELSE None])

\* an hourly line item whose unit price is the total itself
hourly_line_item_total_as_rate(m) ==
  LineItem([service |-> Some(squeeze(m.service)),
            unit_price |-> Some(float(replace_commas(m.total))),
            unit |-> Some("hour"),
            quantity |-> Some(int(m.hours)),
            monthly_total |-> Some(float(replace_commas(m.total)))])

hourly_line_item(m) ==
  LineItem([service |-> Some(squeeze(m.service)),
            unit_price |-> IF int(m.hours) > 0
                           THEN Some(QDivInt(float(replace_commas(m.total)), int(m.hours)))
                           ELSE Some(Zero),
            unit |-> Some("hour"),
            quantity |-> Some(int(m.hours)),
            monthly_total |-> Some(float(replace_commas(m.total)))])

_extract_financial_details(text) ==
  LET currency_amounts == FindAll(currency_amounts_in, text)
      service_matches == FindAll(service_matches_in, text)
      hourly_matches == FindAll(hourly_matches_in, text)
      monthly_matches == FindAll(monthly_matches_in, text)
      setup_matches == FindAll(setup_matches_in, text)
      annual_matches == FindAll(annual_matches_in, text)
      term_matches == FindAll(term_matches_in, text)
      \* every token handed to float(), in the order the function converts them
      converted ==
        currency_amounts
        \o [i \in 1..Len(service_matches) |-> service_matches[i].rate]
        \o [i \in 1..Len(hourly_matches) |-> hourly_matches[i].total]
        \o FirstOf(monthly_matches) \o FirstOf(setup_matches) \o FirstOf(annual_matches)
      failure == FirstFloatError(converted)
      line_items ==
        [i \in 1..Len(service_matches) |-> service_line_item(service_matches[i])]
        \o [i \in 1..Len(hourly_matches) |-> hourly_line_item(hourly_matches[i])]
      monthly_costs ==
        IF monthly_matches # <<>>
        THEN DictSet(EmptyDict, "Monthly Total", float(replace_commas(monthly_matches[1])))
        ELSE EmptyDict
      one_time_costs ==
        add_fixed_fees(IF setup_matches # <<>>
                       THEN DictSet(EmptyDict, "Setup Fee", float(replace_commas(setup_matches[1])))
                       ELSE EmptyDict,
                       line_items)
      total_monthly == IF DOMAIN monthly_costs # {} THEN SumValues(monthly_costs) ELSE Zero
      total_one_time == IF DOMAIN one_time_costs # {} THEN SumValues(one_time_costs) ELSE Zero
      contract_months == IF term_matches # <<>> THEN int(term_matches[1]) ELSE 12
  IN IF failure # None THEN Raise(failure[1])
     ELSE SetAttrs("FinancialDetails", FinancialDetails(NoKw),
            <<<<"line_items", IF line_items # <<>> THEN Some(line_items) ELSE None>>,
              <<"monthly_costs", IF DOMAIN monthly_costs # {} THEN Some(monthly_costs) ELSE None>>,
              <<"one_time_costs", IF DOMAIN one_time_costs # {} THEN Some(one_time_costs) ELSE None>>,
              <<"total_monthly", Some(total_monthly)>>,
              <<"total_one_time", Some(total_one_time)>>>>
            \o (IF annual_matches # <<>>
                THEN <<<<"annual_contract_value", Some(float(replace_commas(annual_matches[1])))>>>>
                ELSE IF QPositive(total_monthly)
                     THEN <<<<"annual_contract_value", Some(QMulInt(total_monthly, contract_months))>>>>
                     ELSE <<>>)
            \o <<<<"currency", Some("USD")>>>>)

---------------------------------------------------------------------------
\* PDFParser._extract_payment_structure

_extract_payment_structure(text) ==
  LET payment_terms_matches == FindAll(payment_terms_matches_in, text)
      alt_matches == FindAll(alt_matches_in, text)
      payment_method_matches == FindAll(payment_method_matches_in, text)
      schedule_matches == FindAll(schedule_matches_in, text)
      late_fee_matches == FindAll(late_fee_matches_in, text)
      discount_matches == FindAll(discount_matches_in, text)
      bank_matches == FindAll(bank_matches_in, text)
      account_matches == FindAll(account_matches_in, text)
      routing_matches == FindAll(routing_matches_in, text)
      swift_matches == FindAll(swift_matches_in, text)
      banking_info ==
        BankingInfo([bank_name |-> IF bank_matches # <<>> THEN Some(strip(bank_matches[1])) ELSE None,
                     account_number |-> IF account_matches # <<>> THEN Some(account_matches[1]) ELSE None,
                     routing_number |-> IF routing_matches # <<>> THEN Some(routing_matches[1]) ELSE None,
                     swift_code |-> IF swift_matches # <<>> THEN Some(swift_matches[1]) ELSE None])
  IN SetAttrs("PaymentStructure", PaymentStructure(NoKw),
       (IF payment_terms_matches # <<>>
        THEN <<<<"payment_terms", Some(fmt_net_days(payment_terms_matches[1]))>>>>
        ELSE IF alt_matches # <<>>
             THEN <<<<"payment_terms", Some(fmt_alt_net_days(alt_matches[1]))>>>>
             ELSE <<>>)
       \o (IF payment_method_matches # <<>>
           THEN <<<<"payment_method", Some(strip(payment_method_matches[1]))>>>> ELSE <<>>)
       \o (IF schedule_matches # <<>>
           THEN <<<<"payment_schedule", Some(schedule_matches[1])>>>>
           ELSE IF Search(kw_monthly_in, text)
                THEN <<<<"payment_schedule", Some("Monthly recurring billing")>>>>
           ELSE IF Search(kw_quarterly_in, text)
                THEN <<<<"payment_schedule", Some("Quarterly billing")>>>>
           ELSE IF Search(kw_annually_in, text)
                THEN <<<<"payment_schedule", Some("Annual billing")>>>>
           ELSE <<>>)
       \o (IF late_fee_matches # <<>>
           THEN <<<<"late_payment_fee", Some(fmt_late_fee(late_fee_matches[1]))>>>> ELSE <<>>)
       \o (IF discount_matches # <<>>
           THEN <<<<"discount_terms", Some(fmt_discount(discount_matches[1]))>>>> ELSE <<>>)
       \o (IF bank_matches # <<>> \/ account_matches # <<>> \/ routing_matches # <<>>
           THEN <<<<"banking_info", Some(banking_info)>>>> ELSE <<>>))

---------------------------------------------------------------------------
\* PDFParser._extract_account_info

_extract_account_info(text) ==
  LET account_matches == FindAll(account_number_matches_in, text)
      emails == FindAll(label_emails_in, text)
      billing_phones == FindAll(billing_phones_in, text)
      contact_matches == FindAll(contact_matches_in, text)
      billing_contact ==
        BillingContact([name |-> IF contact_matches # <<>> THEN Some(strip(contact_matches[1])) ELSE None,
                        email |-> IF emails # <<>> THEN Some(emails[1]) ELSE None,
                        phone |-> IF billing_phones # <<>> THEN Some(billing_phones[1]) ELSE None])
  IN SetAttrs("AccountInfo", AccountInfo(NoKw),
       (IF account_matches # <<>>
        THEN <<<<"account_number", Some(account_matches[1])>>>> ELSE <<>>)
       \o (IF emails # <<>> \/ billing_phones # <<>> \/ contact_matches # <<>>
           THEN <<<<"billing_contact", Some(billing_contact)>>>> ELSE <<>>))

---------------------------------------------------------------------------
\* PDFParser._extract_revenue_classification

_extract_revenue_classification(text) ==
  LET term_matches == FindAll(term_matches_in, text)
      renewal_matches == FindAll(renewal_matches_in, text)
      termination_matches == FindAll(termination_matches_in, text)
      pricing_matches == FindAll(pricing_matches_in, text)
  IN SetAttrs("RevenueClassification", RevenueClassification(NoKw),
       (IF term_matches # <<>>
        THEN <<<<"contract_term", Some(fmt_months(term_matches[1]))>>>> ELSE <<>>)
       \o (IF renewal_matches # <<>>
           THEN <<<<"auto_renewal", Some(fmt_renewal(renewal_matches[1]))>>>> ELSE <<>>)
       \o <<<<"type", IF Search(kw_recurring_in, text) THEN Some("recurring")
                      ELSE IF Search(kw_one_time_in, text) THEN Some("one-time")
                      ELSE Some("mixed")>>>>
       \o (IF Search(kw_monthly_in, text) THEN <<<<"billing_cycle", Some("monthly")>>>>
           ELSE IF Search(kw_quarterly_in, text) THEN <<<<"billing_cycle", Some("quarterly")>>>>
           ELSE IF Search(kw_annually_in, text) THEN <<<<"billing_cycle", Some("annual")>>>>
           ELSE <<>>)
       \o (IF termination_matches # <<>>
           THEN <<<<"termination_notice", Some(fmt_notice(termination_matches[1]))>>>> ELSE <<>>)
       \o (IF pricing_matches # <<>>
           THEN <<<<"pricing_adjustments", Some(fmt_pricing(pricing_matches[1]))>>>> ELSE <<>>))

---------------------------------------------------------------------------
\* PDFParser._extract_sla_terms

\* an SLA extractor that returns the record with every field at its default
_extract_sla_terms_defaults_only(text) == Ok(SLATerms(NoKw))

_extract_sla_terms(text) ==
  LET uptime_matches == FindAll(uptime_matches_in, text)
      critical_matches == FindAll(critical_matches_in, text)
      high_matches == FindAll(high_matches_in, text)
      medium_matches == FindAll(medium_matches_in, text)
      low_matches == FindAll(low_matches_in, text)
      response_perf == FindAll(response_perf_in, text)
      backup_perf == FindAll(backup_perf_in, text)
      credit_matches == FindAll(credit_matches_in, text)
      response_times ==
        ResponseTimes([critical |-> IF critical_matches # <<>>
                                    THEN Some(fmt_hours(critical_matches[1])) ELSE Some("1 hour"),
                       high |-> IF high_matches # <<>>
                                THEN Some(fmt_hours(high_matches[1])) ELSE Some("4 hours"),
                       medium |-> IF medium_matches # <<>>
                                  THEN Some(fmt_hours(medium_matches[1])) ELSE Some("8 hours"),
                       low |-> IF low_matches # <<>>
                               THEN Some(fmt_hours(low_matches[1])) ELSE Some("24 hours")])
      performance_metrics ==
        (IF response_perf # <<>>
         THEN DictSet(EmptyDict, "system_response_time", Some(fmt_seconds(response_perf[1])))
         ELSE EmptyDict)
        @@ (IF backup_perf # <<>>
            THEN DictSet(EmptyDict, "backup_success_rate", Some(backup_perf[1]))
            ELSE EmptyDict)
      service_credits ==
        [i \in 1..Len(credit_matches) |->
           ServiceCredits([threshold |-> Some(fmt_threshold(credit_matches[i].threshold)),
                           credit_percentage |->
                             Some(fmt_credit_percentage(credit_matches[i].credit_percent)),
                           description |->
                             Some(fmt_credit_description(credit_matches[i].threshold))])]
  IN SetAttrs("SLATerms", SLATerms(NoKw),
       (IF uptime_matches # <<>>
        THEN <<<<"uptime_commitment", Some(fmt_uptime(uptime_matches[1]))>>>> ELSE <<>>)
       \o <<<<"response_times", Some(response_times)>>,
            <<"performance_metrics",
              IF DOMAIN performance_metrics # {}
              THEN Some(PerformanceMetrics(performance_metrics)) ELSE None>>,
            <<"service_credits", Some(service_credits)>>>>)

---------------------------------------------------------------------------
\* PDFParser._analyze_gaps

\* a note that leaves the count out
fmt_missing_note_without_count(n) == "Contract is missing critical fields"

\* f"Contract is missing {len(missing_fields)} critical fields"
fmt_missing_note(n) ==
  CASE n = 1 -> "Contract is missing 1 critical fields"
    [] n = 2 -> "Contract is missing 2 critical fields"
    [] n = 3 -> "Contract is missing 3 critical fields"
    [] n = 4 -> "Contract is missing 4 critical fields"
    [] n = 5 -> "Contract is missing 5 critical fields"
    [] n = 6 -> "Contract is missing 6 critical fields"
    [] n = 7 -> "Contract is missing 7 critical fields"

fmt_incomplete_note(n) ==
  CASE n = 1 -> "Contract has 1 incomplete sections"
    [] n = 2 -> "Contract has 2 incomplete sections"
    [] n = 3 -> "Contract has 3 incomplete sections"

\* append name when cond
AppendIf(cond, name) == IF cond THEN <<name>> ELSE <<>>

\* notes holds the parts that "; ".join(notes) joins
_analyze_gaps(parties, financial_details, payment_structure, sla_terms) ==
  LET missing_fields ==
        AppendIf(~TruthyModel(parties.service_provider)
                 \/ ~TruthyStr(parties.service_provider[1].name), "service_provider_name")
        \o AppendIf(~TruthyModel(parties.customer)
                    \/ ~TruthyStr(parties.customer[1].name), "customer_name")
        \o AppendIf(~TruthyNum(financial_details.annual_contract_value), "annual_contract_value")
        \o AppendIf(~TruthyDict(financial_details.monthly_costs)
                    /\ ~TruthyDict(financial_details.one_time_costs), "cost_breakdown")
        \o AppendIf(~TruthyStr(payment_structure.payment_terms), "payment_terms")
        \o AppendIf(~TruthyStr(sla_terms.uptime_commitment), "uptime_commitment")
        \o AppendIf(~TruthyModel(sla_terms.response_times), "response_times")
      incomplete_fields ==
        AppendIf(TruthyModel(parties.service_provider)
                 /\ ~TruthyStr(parties.service_provider[1].email), "service_provider_contact")
        \o AppendIf(TruthyModel(parties.customer)
                    /\ ~TruthyStr(parties.customer[1].email), "customer_contact")
        \o AppendIf(~TruthyStr(payment_structure.payment_method), "payment_method")
      notes ==
        (IF missing_fields # <<>> THEN <<fmt_missing_note(Len(missing_fields))>> ELSE <<>>)
        \o (IF incomplete_fields # <<>>
            THEN <<fmt_incomplete_note(Len(incomplete_fields))>> ELSE <<>>)
        \o (IF missing_fields = <<>> /\ incomplete_fields = <<>>
            THEN <<"Contract appears to be comprehensive with all major sections present">>
            ELSE <<>>)
  IN GapAnalysis([missing_fields |-> Some(missing_fields),
                  incomplete_fields |-> Some(incomplete_fields),
                  notes |-> IF notes # <<>> THEN Some(notes) ELSE None])

---------------------------------------------------------------------------
\* PDFParser.calculate_confidence_score

\* a scorer whose rows earn 5 points each
five_points(cond, n) == IF cond THEN 5 ELSE 0

\* if <check>: score += <points>
Points(cond, n) == IF cond THEN n ELSE 0

min(a, b) == IF a < b THEN a ELSE b

calculate_confidence_score(extracted_data) ==
  LET financial_details == extracted_data.financial_details
      parties == extracted_data.parties
      payment_structure == extracted_data.payment_structure
      sla_terms == extracted_data.sla_terms
      account_info == extracted_data.account_info
      score ==
        (IF TruthyModel(financial_details)
         THEN Points(TruthyNum(financial_details[1].annual_contract_value), 10)
              + Points(TruthyDict(financial_details[1].monthly_costs)
                       \/ TruthyDict(financial_details[1].one_time_costs), 10)
              + Points(TruthyList(financial_details[1].line_items), 10)
         ELSE 0)
        + (IF TruthyModel(parties)
           THEN Points(TruthyModel(parties[1].service_provider)
                       /\ TruthyStr(parties[1].service_provider[1].name), 10)
                + Points(TruthyModel(parties[1].customer)
                         /\ TruthyStr(parties[1].customer[1].name), 10)
                + Points((TruthyModel(parties[1].service_provider)
                          /\ TruthyStr(parties[1].service_provider[1].email))
                         \/ (TruthyModel(parties[1].customer)
                             /\ TruthyStr(parties[1].customer[1].email)), 5)
           ELSE 0)
        + (IF TruthyModel(payment_structure)
           THEN Points(TruthyStr(payment_structure[1].payment_terms), 10)
                + Points(TruthyStr(payment_structure[1].payment_method), 5)
                + Points(TruthyStr(payment_structure[1].payment_schedule), 5)
           ELSE 0)
        + (IF TruthyModel(sla_terms)
           THEN Points(TruthyStr(sla_terms[1].uptime_commitment), 5)
                + Points(TruthyModel(sla_terms[1].response_times), 5)
                + Points(TruthyModel(sla_terms[1].performance_metrics), 5)
           ELSE 0)
        + (IF TruthyModel(account_info) /\ TruthyModel(account_info[1].billing_contact)
           THEN Points(TruthyStr(account_info[1].billing_contact[1].email), 5)
                + Points(TruthyStr(account_info[1].billing_contact[1].phone), 5)
           ELSE 0)
  IN min(score, 100)

---------------------------------------------------------------------------
\* PDFParser._extract_text_from_pdf and PDFParser.parse_contract

\* pdf_content: [size, readable, text]; PyPDF2 raises on bytes it cannot read
_extract_text_from_pdf(pdf_content) ==
  IF pdf_content.readable THEN Ok(pdf_content.text)
  ELSE Raise("Failed to extract text from PDF: EOF marker not found")

\* f"Failed to parse contract: {str(e)}"
fmt_parse_error(e) ==
  CASE e = "Failed to extract text from PDF: EOF marker not found" ->
         "Failed to parse contract: Failed to extract text from PDF: EOF marker not found"
    [] e = "could not convert string to float: ''" ->
         "Failed to parse contract: could not convert string to float: ''"
    [] e = "\"PaymentStructure\" object has no field \"discount_terms\"" ->
         "Failed to parse contract: \"PaymentStructure\" object has no field \"discount_terms\""
    [] OTHER -> "Failed to parse contract"

\* the methods parse_contract calls, in call order
Components ==
  <<"_extract_text_from_pdf", "_extract_parties", "_extract_financial_details",
    "_extract_payment_structure", "_extract_account_info",
    "_extract_revenue_classification", "_extract_sla_terms", "_analyze_gaps">>

\* except Exception as e: raise ValueError(f"Failed to parse contract: {str(e)}"),
\* after n of the methods were invoked
parse_failed(step, n) ==
  [raised |-> TRUE, value |-> None, error |-> fmt_parse_error(step.error),
   invoked |-> SubSeq(Components, 1, n)]

\* parse_contract from the results of the six extractors on: the first that raised
\* ends the call; otherwise the gap analysis is made and ExtractedData is built
parse_sections(parties, financial_details, payment_structure, account_info, revenue_classification, sla_terms) ==
  IF parties.raised THEN parse_failed(parties, 2)
  ELSE IF financial_details.raised THEN parse_failed(financial_details, 3)
  ELSE IF payment_structure.raised THEN parse_failed(payment_structure, 4)
  ELSE IF account_info.raised THEN parse_failed(account_info, 5)
  ELSE IF revenue_classification.raised THEN parse_failed(revenue_classification, 6)
  ELSE IF sla_terms.raised THEN parse_failed(sla_terms, 7)
  ELSE [raised |-> FALSE,
        value |-> ExtractedData(
          [parties |-> Some(parties.value),
           financial_details |-> Some(financial_details.value),
           payment_structure |-> Some(payment_structure.value),
           account_info |-> Some(account_info.value),
           revenue_classification |-> Some(revenue_classification.value),
           sla_terms |-> Some(sla_terms.value),
           gap_analysis |-> Some(_analyze_gaps(parties.value, financial_details.value,
                                               payment_structure.value, sla_terms.value))]),
        error |-> "",
        invoked |-> Components]

\* parse_contract once the text is extracted
parse_text(text, order) ==
  parse_sections(_extract_parties(text, order), _extract_financial_details(text),
                 _extract_payment_structure(text), _extract_account_info(text),
                 _extract_revenue_classification(text), _extract_sla_terms(text))

\* parse_contract going on with an empty text when _extract_text_from_pdf raised
parse_extracted_ignoring_failure(extracted, order) ==
  parse_text(IF extracted.raised THEN <<>> ELSE extracted.value, order)

\* parse_contract once _extract_text_from_pdf returned or raised
parse_extracted(extracted, order) ==
  IF extracted.raised THEN parse_failed(extracted, 1) ELSE parse_text(extracted.value, order)

\* the outcome of parse_contract, with the list of the methods it invoked
parse_contract(pdf_content, order) ==
  parse_extracted(_extract_text_from_pdf(pdf_content), order)

---------------------------------------------------------------------------
\* The service and the endpoints

VARIABLES
  contracts,      \* the contracts collection: contract id -> Optional document
  files,          \* the upload directory: the contents saved, file_path = position
  contract_data,  \* the contract_data collection: the documents inserted, in order
  task,           \* per contract id, the process_contract coroutine started for it
  reader,         \* a client of GET /contracts/{contract_id}
  upload_reply,   \* the last response of POST /contracts/upload
  arg,            \* the argument of the function under study
  ret             \* what the function under study returned

vars == <<contracts, files, contract_data, task, reader, upload_reply, arg, ret>>

sysvars == <<contracts, files, contract_data, task, reader, upload_reply>>

\* str(uuid.uuid4()): the ids create_contract can draw
IdPool == <<"id-1", "id-2", "id-3", "id-4">>

ContractIds == {IdPool[i] : i \in 1..MaxContracts}

\* an id no contract record was ever created for
UnknownId == "id-unknown"

AllIds == ContractIds \cup {UnknownId}

\* the uploads a client sends: [filename, content], content = [size, readable, text]
Uploads ==
  { [filename |-> "notes.txt", content |-> [size |-> 1024, readable |-> FALSE, text |-> <<>>]],
    [filename |-> "contract.pdf", content |-> [size |-> 0, readable |-> FALSE, text |-> <<>>]],
    [filename |-> "contract.pdf",
     content |-> [size |-> max_file_size + 1, readable |-> TRUE, text |-> <<>>]],
    [filename |-> "CONTRACT.PDF", content |-> [size |-> 1024, readable |-> FALSE, text |-> <<>>]],
    [filename |-> "contract.pdf",
     content |-> [size |-> 1024, readable |-> TRUE, text |-> <<"SDiscount">>]],
    [filename |-> "contract.pdf",
     content |-> [size |-> max_file_size, readable |-> TRUE, text |-> <<"SDelta", "SOmega">>]] }

\* a file type check that lets every file name through
any_filename(filename) == TRUE

\* file.filename.lower().endswith('.pdf')
lower_endswith_pdf(filename) ==
  CASE filename = "contract.pdf" -> TRUE
    [] filename = "CONTRACT.PDF" -> TRUE
    [] filename = "notes.txt" -> FALSE

\* f"Contract {contract_id} not found"
fmt_not_found(contract_id) ==
  CASE contract_id = "id-unknown" -> "Contract id-unknown not found"
    [] contract_id = "id-1" -> "Contract id-1 not found"
    [] contract_id = "id-2" -> "Contract id-2 not found"
    [] contract_id = "id-3" -> "Contract id-3 not found"
    [] contract_id = "id-4" -> "Contract id-4 not found"

\* f"Contract processing not completed. Current status: {status}"
fmt_not_completed(status) ==
  CASE status = "pending" -> "Contract processing not completed. Current status: pending"
    [] status = "processing" -> "Contract processing not completed. Current status: processing"
    [] status = "failed" -> "Contract processing not completed. Current status: failed"

\* ContractService.create_contract: the document inserted into contracts
create_contract(contract_id, filename, file_path, file_size) ==
  [id |-> contract_id, filename |-> filename, file_path |-> file_path,
   file_size |-> file_size, status |-> "pending", progress |-> 0, error_message |-> None]

\* an update_contract_status whose update_one has the empty filter: every document changes
update_every_contract(db, contract_id, status, progress, error_message) ==
  [id \in DOMAIN db |->
     IF db[id] = None THEN None
     ELSE Some([db[id][1] EXCEPT !.status = status,
                                 !.progress = IF progress # None THEN progress[1] ELSE @,
                                 !.error_message = IF TruthyStr(error_message)
                                                   THEN error_message ELSE @])]

\* ContractService.update_contract_status: update_one changes the document with
\* that _id, and nothing when there is none
update_contract_status(db, contract_id, status, progress, error_message) ==
  IF db[contract_id] = None THEN db
  ELSE [db EXCEPT ![contract_id] =
          Some([@[1] EXCEPT !.status = status,
                            !.progress = IF progress # None THEN progress[1] ELSE @,
                            !.error_message = IF TruthyStr(error_message)
                                              THEN error_message ELSE @])]

\* ResponseTimes.dict(by_alias=True)
ResponseTimes_dict(m) ==
  [k \in {"Critical issues", "High priority", "Medium priority", "Low priority"} |->
     CASE k = "Critical issues" -> m.critical_issues
       [] k = "High priority" -> m.high_priority
       [] k = "Medium priority" -> m.medium_priority
       [] k = "Low priority" -> m.low_priority]

\* PerformanceMetrics.dict(by_alias=True)
PerformanceMetrics_dict(m) ==
  [k \in {"System response time", "Backup success rate", "Security patch deployment"} |->
     CASE k = "System response time" -> m.system_response_time
       [] k = "Backup success rate" -> m.backup_success_rate
       [] k = "Security patch deployment" -> m.security_patch_deployment]

\* ExtractedData.dict(by_alias=True): the aliased models are stored under their aliases
ExtractedData_dict(d) ==
  [d EXCEPT !.sla_terms =
     IF @ = None THEN None
     ELSE Some([@[1] EXCEPT
                  !.response_times = IF @ = None THEN None ELSE Some(ResponseTimes_dict(@[1])),
                  !.performance_metrics =
                    IF @ = None THEN None ELSE Some(PerformanceMetrics_dict(@[1]))])]

\* a ContractDataModel document whose confidence_score is left at the field's default
ContractDataModel_dict_default_score(contract_id, extracted_data, confidence_score) ==
  [contract_id |-> contract_id, extracted_data |-> ExtractedData_dict(extracted_data),
   confidence_score |-> 0, gap_analysis |-> None]

\* ContractDataModel(contract_id=..., extracted_data=..., confidence_score=...).dict(by_alias=True)
ContractDataModel_dict(contract_id, extracted_data, confidence_score) ==
  [contract_id |-> contract_id, extracted_data |-> ExtractedData_dict(extracted_data),
   confidence_score |-> confidence_score, gap_analysis |-> None]

\* collection.find_one({"contract_id": contract_id})
find_contract_data(collection, contract_id) ==
  LET hits == SelectSeq(collection, LAMBDA doc : doc.contract_id = contract_id)
  IN IF hits = <<>> THEN None ELSE Some(hits[1])

\* ContractService.get_contract_status
get_contract_status(db, contract_id) ==
  IF db[contract_id] = None THEN None
  ELSE Some([contract_id |-> contract_id, status |-> db[contract_id][1].status,
             progress |-> db[contract_id][1].progress,
             error_message |-> db[contract_id][1].error_message])

NoTask ==
  [pc |-> "none", contract |-> None, file_content |-> None, extracted_data |-> None,
   error |-> None, invoked |-> <<>>]

IdleReader == [pc |-> "idle", contract_id |-> None, contract |-> None, reply |-> None]

SysInit ==
  /\ contracts = [id \in AllIds |-> None]
  /\ files = <<>>
  /\ contract_data = <<>>
  /\ task = [id \in AllIds |-> NoTask]
  /\ reader = IdleReader
  /\ upload_reply = None

Init ==
  /\ SysInit
  /\ arg = None
  /\ ret = None

HTTPException(status_code, detail) == Some([status_code |-> status_code, detail |-> detail])

\* POST /contracts/upload.  The id and the file path are fresh.  Saving the file can
\* fail, and so can inserting the record once the file is saved; the handler answers
\* both with 500.
upload_contract ==
  \E file \in Uploads, failure \in {"none", "save_uploaded_file", "create_contract"} :
    LET contract_id == IdPool[Len(files) + 1]
        file_path == Len(files) + 1
    IN /\ Len(files) < MaxContracts
       /\ IF ~lower_endswith_pdf(file.filename)
          THEN /\ upload_reply' = HTTPException(400, "Only PDF files are supported")
               /\ UNCHANGED <<contracts, files, task>>
          ELSE IF file.content.size > max_file_size
          THEN /\ upload_reply' = HTTPException(400, "File size exceeds maximum limit of 52428800 bytes")
               /\ UNCHANGED <<contracts, files, task>>
          ELSE IF file.content.size = 0
          THEN /\ upload_reply' = HTTPException(400, "File is empty")
               /\ UNCHANGED <<contracts, files, task>>
          ELSE IF failure = "save_uploaded_file"
          THEN /\ upload_reply' = HTTPException(500, "Internal server error during file upload")
               /\ UNCHANGED <<contracts, files, task>>
          ELSE IF failure = "create_contract"
          THEN /\ files' = Append(files, file.content)
               /\ upload_reply' = HTTPException(500, "Internal server error during file upload")
               /\ UNCHANGED <<contracts, task>>
          ELSE /\ files' = Append(files, file.content)
               /\ contracts' = [contracts EXCEPT ![contract_id] =
                    Some(create_contract(contract_id, file.filename, file_path, file.content.size))]
               /\ task' = [task EXCEPT ![contract_id] = [NoTask EXCEPT !.pc = "update10"]]
               /\ upload_reply' = Some([status_code |-> 200, contract_id |-> contract_id])
       /\ UNCHANGED <<contract_data, reader, arg, ret>>

---------------------------------------------------------------------------
\* ContractService.process_contract, one action per await

\* a direct call of process_contract with an id that has no record
process_unknown_contract ==
  /\ task[UnknownId].pc = "none"
  /\ task' = [task EXCEPT ![UnknownId].pc = "update10"]
  /\ UNCHANGED <<contracts, files, contract_data, reader, upload_reply, arg, ret>>

\* process_contract starting without its first status update
start_without_processing(contract_id) ==
  /\ task[contract_id].pc = "update10"
  /\ task' = [task EXCEPT ![contract_id].pc = "find"]
  /\ UNCHANGED <<contracts, files, contract_data, reader, upload_reply, arg, ret>>

\* await self.update_contract_status(contract_id, "processing", 10)
update_processing_10(contract_id) ==
  /\ task[contract_id].pc = "update10"
  /\ contracts' = update_contract_status(contracts, contract_id, "processing", Some(10), None)
  /\ task' = [task EXCEPT ![contract_id].pc = "find"]
  /\ UNCHANGED <<files, contract_data, reader, upload_reply, arg, ret>>

\* contract = await self.contracts_collection.find_one({"_id": contract_id})
find_contract(contract_id) ==
  /\ task[contract_id].pc = "find"
  /\ IF contracts[contract_id] = None
     THEN task' = [task EXCEPT ![contract_id].pc = "except",
                               ![contract_id].error = Some(fmt_not_found(contract_id))]
     ELSE task' = [task EXCEPT ![contract_id].pc = "read",
                               ![contract_id].contract = contracts[contract_id]]
  /\ UNCHANGED <<contracts, files, contract_data, reader, upload_reply, arg, ret>>

\* async with aiofiles.open(contract["file_path"], 'rb') as f: file_content = await f.read()
read_file(contract_id) ==
  /\ task[contract_id].pc = "read"
  /\ \E readable \in BOOLEAN :
       IF readable
       THEN task' = [task EXCEPT ![contract_id].pc = "update30",
                                 ![contract_id].file_content =
                                   Some(files[task[contract_id].contract[1].file_path])]
       ELSE task' = [task EXCEPT ![contract_id].pc = "except",
                                 ![contract_id].error =
                                   Some("[Errno 2] No such file or directory")]
  /\ UNCHANGED <<contracts, files, contract_data, reader, upload_reply, arg, ret>>

\* await self.update_contract_status(contract_id, "processing", 30)
update_processing_30(contract_id) ==
  /\ task[contract_id].pc = "update30"
  /\ contracts' = update_contract_status(contracts, contract_id, "processing", Some(30), None)
  /\ task' = [task EXCEPT ![contract_id].pc = "parse"]
  /\ UNCHANGED <<files, contract_data, reader, upload_reply, arg, ret>>

\* the orders list(set(...)) can give _extract_parties for this file
Orders(pdf_content) ==
  IF pdf_content.readable THEN ListOfSet(company_set(pdf_content.text)) ELSE {<<>>}

\* what parse_contract returns or raises for each file an upload can store, under each
\* iteration order of its set of company names
ParseOutcomes ==
  UNION {{[pdf_content |-> file.content, order |-> order,
           parsed |-> parse_contract(file.content, order)] : order \in Orders(file.content)} :
         file \in Uploads}

ParseOutcome(pdf_content, order) ==
  (CHOOSE outcome \in ParseOutcomes :
     outcome.pdf_content = pdf_content /\ outcome.order = order).parsed

\* extracted_data = pdf_parser.parse_contract(file_content)
call_parse_contract(contract_id) ==
  /\ task[contract_id].pc = "parse"
  /\ \E order \in Orders(task[contract_id].file_content[1]) :
       LET parsed == ParseOutcome(task[contract_id].file_content[1], order)
       IN IF parsed.raised
          THEN task' = [task EXCEPT ![contract_id].pc = "except",
                                    ![contract_id].error = Some(parsed.error),
                                    ![contract_id].invoked = parsed.invoked]
          ELSE task' = [task EXCEPT ![contract_id].pc = "update70",
                                    ![contract_id].extracted_data = Some(parsed.value),
                                    ![contract_id].invoked = parsed.invoked]
  /\ UNCHANGED <<contracts, files, contract_data, reader, upload_reply, arg, ret>>

\* await self.update_contract_status(contract_id, "processing", 70)
update_processing_70(contract_id) ==
  /\ task[contract_id].pc = "update70"
  /\ contracts' = update_contract_status(contracts, contract_id, "processing", Some(70), None)
  /\ task' = [task EXCEPT ![contract_id].pc = "insert"]
  /\ UNCHANGED <<files, contract_data, reader, upload_reply, arg, ret>>

\* process_contract going on to its last status update without inserting the result
skip_insert(contract_id) ==
  /\ task[contract_id].pc = "insert"
  /\ task' = [task EXCEPT ![contract_id].pc = "update100"]
  /\ UNCHANGED <<contracts, files, contract_data, reader, upload_reply, arg, ret>>

\* confidence_score = ...; await self.contract_data_collection.insert_one(...)
insert_contract_data(contract_id) ==
  /\ task[contract_id].pc = "insert"
  /\ \E inserted \in BOOLEAN :
       LET extracted_data == task[contract_id].extracted_data[1]
           confidence_score == calculate_confidence_score(extracted_data)
           invoked == Append(task[contract_id].invoked, "calculate_confidence_score")
       IN IF inserted
          THEN /\ contract_data' =
                    Append(contract_data,
                           ContractDataModel_dict(contract_id, extracted_data, confidence_score))
               /\ task' = [task EXCEPT ![contract_id].pc = "update100",
                                       ![contract_id].invoked = invoked]
          ELSE /\ contract_data' = contract_data
               /\ task' = [task EXCEPT ![contract_id].pc = "except",
                                       ![contract_id].error = Some("connection closed"),
                                       ![contract_id].invoked = invoked]
  /\ UNCHANGED <<contracts, files, reader, upload_reply, arg, ret>>

\* await self.update_contract_status(contract_id, "completed", 100)
update_completed(contract_id) ==
  /\ task[contract_id].pc = "update100"
  /\ contracts' = update_contract_status(contracts, contract_id, "completed", Some(100), None)
  /\ task' = [task EXCEPT ![contract_id].pc = "done"]
  /\ UNCHANGED <<files, contract_data, reader, upload_reply, arg, ret>>

\* an except clause that re-raises without recording the failure
reraise_without_update(contract_id) ==
  /\ task[contract_id].pc = "except"
  /\ task' = [task EXCEPT ![contract_id].pc = "raised"]
  /\ UNCHANGED <<contracts, files, contract_data, reader, upload_reply, arg, ret>>

\* an except clause that records the failure and sets the progress back to 0
update_failed_resetting_progress(contract_id) ==
  /\ task[contract_id].pc = "except"
  /\ contracts' = update_contract_status(contracts, contract_id, "failed", Some(0),
                                         task[contract_id].error)
  /\ task' = [task EXCEPT ![contract_id].pc = "raised"]
  /\ UNCHANGED <<files, contract_data, reader, upload_reply, arg, ret>>

\* except Exception as e: await self.update_contract_status(contract_id, "failed",
\* error_message=str(e)); raise -- process_contract_background logs what is raised
update_failed(contract_id) ==
  /\ task[contract_id].pc = "except"
  /\ contracts' = update_contract_status(contracts, contract_id, "failed", None,
                                         task[contract_id].error)
  /\ task' = [task EXCEPT ![contract_id].pc = "raised"]
  /\ UNCHANGED <<files, contract_data, reader, upload_reply, arg, ret>>

---------------------------------------------------------------------------
\* GET /contracts/{contract_id}, one action per await

\* get_contract_data looking the data up for a contract of any status
get_contract_data_any_status ==
  /\ reader.pc = "idle"
  /\ \E contract_id \in AllIds :
       reader' = [reader EXCEPT
                    !.contract_id = Some(contract_id),
                    !.contract = contracts[contract_id],
                    !.pc = IF contracts[contract_id] = None THEN "status" ELSE "find_data"]
  /\ UNCHANGED <<contracts, files, contract_data, task, upload_reply, arg, ret>>

\* ContractService.get_contract_data, first find_one: the contract record
get_contract_data_find_contract ==
  /\ reader.pc = "idle"
  /\ \E contract_id \in AllIds :
       LET contract == contracts[contract_id]
       IN reader' = [reader EXCEPT
                       !.contract_id = Some(contract_id),
                       !.contract = contract,
                       !.pc = IF contract = None \/ contract[1].status # "completed"
                              THEN "status" ELSE "find_data"]
  /\ UNCHANGED <<contracts, files, contract_data, task, upload_reply, arg, ret>>

\* ContractService.get_contract_data, second find_one: the extracted data
get_contract_data_find_data ==
  /\ reader.pc = "find_data"
  /\ LET found == find_contract_data(contract_data, reader.contract_id[1])
     IN IF found = None
        THEN reader' = [reader EXCEPT !.pc = "status"]
        ELSE reader' = [reader EXCEPT
                          !.pc = "replied",
                          !.reply = Some([status_code |-> 200,
                                          contract_id |-> reader.contract_id[1],
                                          extracted_data |-> found[1].extracted_data,
                                          confidence_score |-> found[1].confidence_score,
                                          status |-> reader.contract[1].status])]
  /\ UNCHANGED <<contracts, files, contract_data, task, upload_reply, arg, ret>>

\* the endpoint's branch for no data: get_contract_status, then the HTTPException
get_contract_data_no_data ==
  /\ reader.pc = "status"
  /\ LET status_data == get_contract_status(contracts, reader.contract_id[1])
     IN reader' = [reader EXCEPT
                     !.pc = "replied",
                     !.reply = IF status_data = None
                               THEN HTTPException(404, "Contract not found")
                               ELSE IF status_data[1].status # "completed"
                               THEN HTTPException(400, fmt_not_completed(status_data[1].status))
                               ELSE HTTPException(404, "Contract data not found")]
  /\ UNCHANGED <<contracts, files, contract_data, task, upload_reply, arg, ret>>

\* the response is sent; the client may ask again
reader_returns ==
  /\ reader.pc = "replied"
  /\ reader' = IdleReader
  /\ UNCHANGED <<contracts, files, contract_data, task, upload_reply, arg, ret>>

Next ==
  \/ upload_contract
  \/ process_unknown_contract
  \/ \E contract_id \in AllIds :
       \/ update_processing_10(contract_id)
       \/ find_contract(contract_id)
       \/ read_file(contract_id)
       \/ update_processing_30(contract_id)
       \/ call_parse_contract(contract_id)
       \/ update_processing_70(contract_id)
       \/ insert_contract_data(contract_id)
       \/ update_completed(contract_id)
       \/ update_failed(contract_id)
  \/ get_contract_data_find_contract
  \/ get_contract_data_find_data
  \/ get_contract_data_no_data
  \/ reader_returns

Spec == Init /\ [][Next]_vars

---------------------------------------------------------------------------
\* The same system with the event loop running every task that can take a step

\* a step of the contract's process_contract task
task_step(contract_id) ==
  \/ update_processing_10(contract_id)
  \/ find_contract(contract_id)
  \/ read_file(contract_id)
  \/ update_processing_30(contract_id)
  \/ call_parse_contract(contract_id)
  \/ update_processing_70(contract_id)
  \/ insert_contract_data(contract_id)
  \/ update_completed(contract_id)
  \/ update_failed(contract_id)

\* uploads and the tasks they start; a reader changes nothing a task reads
NextTasks ==
  \/ upload_contract
  \/ \E contract_id \in ContractIds : task_step(contract_id)

\* asyncio runs a task created with create_task whenever the await it waits on is done
SpecFair ==
  /\ Init
  /\ [][NextTasks]_vars
  /\ \A contract_id \in ContractIds : WF_vars(task_step(contract_id))

---------------------------------------------------------------------------
\* calculate_confidence_score applied to ExtractedData records of every shape

\* an Optional[str]: None, the empty string, a non-empty string
StrAt(i) == CASE i = 0 -> None [] i = 1 -> Some("") [] i = 2 -> Some("x")

\* an Optional[float]: None, 0.0, a non-zero amount
NumAt(i) == CASE i = 0 -> None [] i = 1 -> Some(Zero) [] i = 2 -> Some(Q(1200, 1))

\* an Optional[dict]: None, {}, a non-empty mapping
DictAt(i) ==
  CASE i = 0 -> None [] i = 1 -> Some(EmptyDict)
    [] i = 2 -> Some(DictSet(EmptyDict, "Monthly Total", Q(100, 1)))

\* an Optional[list]: None, [], a non-empty list
ListAt(i) == CASE i = 0 -> None [] i = 1 -> Some(<<>>) [] i = 2 -> Some(<<LineItem(NoKw)>>)

\* an Optional[PartyInfo]: None, or a party with each name and email of StrAt
PartyAt(i) ==
  IF i = 0 THEN None
  ELSE Some(PartyInfo([name |-> StrAt((i - 1) % 3), email |-> StrAt((i - 1) \div 3)]))

PartiesAt(i) ==
  IF i = 0 THEN None
  ELSE Some(Parties([service_provider |-> PartyAt((i - 1) % 10),
                     customer |-> PartyAt((i - 1) \div 10)]))

FinancialAt(i) ==
  IF i = 0 THEN None
  ELSE Some(FinancialDetails([annual_contract_value |-> NumAt((i - 1) % 3),
                              monthly_costs |-> DictAt(((i - 1) \div 3) % 3),
                              one_time_costs |-> DictAt(((i - 1) \div 9) % 3),
                              line_items |-> ListAt((i - 1) \div 27)]))

PaymentAt(i) ==
  IF i = 0 THEN None
  ELSE Some(PaymentStructure([payment_terms |-> StrAt((i - 1) % 3),
                              payment_method |-> StrAt(((i - 1) \div 3) % 3),
                              payment_schedule |-> StrAt((i - 1) \div 9)]))

SLAAt(i) ==
  IF i = 0 THEN None
  ELSE Some(SLATerms([uptime_commitment |-> StrAt((i - 1) % 3),
                      response_times |->
                        IF ((i - 1) \div 3) % 2 = 1 THEN Some(ResponseTimes(NoKw)) ELSE None,
                      performance_metrics |->
                        IF (i - 1) \div 6 = 1 THEN Some(PerformanceMetrics(NoKw)) ELSE None]))

AccountAt(i) ==
  IF i = 0 THEN None
  ELSE IF i = 1 THEN Some(AccountInfo(NoKw))
  ELSE Some(AccountInfo([billing_contact |->
              Some(BillingContact([email |-> StrAt((i - 2) % 3),
                                   phone |-> StrAt((i - 2) \div 3)]))]))

ExtractedDataAt(f, p, y, s, a) ==
  ExtractedData([financial_details |-> FinancialAt(f), parties |-> PartiesAt(p),
                 payment_structure |-> PaymentAt(y), sla_terms |-> SLAAt(s),
                 account_info |-> AccountAt(a)])

\* every sub-record in every shape, the other four absent, all-falsy or fully populated
InitScore ==
  /\ SysInit
  /\ ret = None
  /\ \/ \E f \in 0..81, p \in {0, 45, 100}, y \in {0, 14, 27}, s \in {0, 5, 12}, a \in {0, 6, 10} :
          arg = Some(ExtractedDataAt(f, p, y, s, a))
     \/ \E f \in {0, 41, 81}, p \in 0..100, y \in {0, 14, 27}, s \in {0, 5, 12}, a \in {0, 6, 10} :
          arg = Some(ExtractedDataAt(f, p, y, s, a))
     \/ \E f \in {0, 41, 81}, p \in {0, 45, 100}, y \in 0..27, s \in {0, 5, 12}, a \in {0, 6, 10} :
          arg = Some(ExtractedDataAt(f, p, y, s, a))
     \/ \E f \in {0, 41, 81}, p \in {0, 45, 100}, y \in {0, 14, 27}, s \in 0..12, a \in {0, 6, 10} :
          arg = Some(ExtractedDataAt(f, p, y, s, a))
     \/ \E f \in {0, 41, 81}, p \in {0, 45, 100}, y \in {0, 14, 27}, s \in {0, 5, 12}, a \in 0..10 :
          arg = Some(ExtractedDataAt(f, p, y, s, a))

\* confidence_score = self.pdf_parser.calculate_confidence_score(extracted_data)
score_record ==
  /\ ret = None
  /\ ret' = Some(calculate_confidence_score(arg[1]))
  /\ UNCHANGED <<contracts, files, contract_data, task, reader, upload_reply, arg>>

NextScore == score_record

SpecScore == InitScore /\ [][NextScore]_vars

---------------------------------------------------------------------------
\* _analyze_gaps applied to sub-records of every shape

GapArgsAt(sp, cu, a, m, o, t, pm, u, r) ==
  [parties |-> Parties([service_provider |-> PartyAt(sp), customer |-> PartyAt(cu)]),
   financial_details |-> FinancialDetails([annual_contract_value |-> NumAt(a),
                                           monthly_costs |-> DictAt(m),
                                           one_time_costs |-> DictAt(o)]),
   payment_structure |-> PaymentStructure([payment_terms |-> StrAt(t),
                                           payment_method |-> StrAt(pm)]),
   sla_terms |-> SLATerms([uptime_commitment |-> StrAt(u),
                           response_times |->
                             IF r = 1 THEN Some(ResponseTimes(NoKw)) ELSE None])]

InitGaps ==
  /\ SysInit
  /\ ret = None
  /\ \E sp \in 0..9, cu \in 0..9, a \in 0..2, m \in 0..2, o \in 0..2, t \in 0..2,
        pm \in 0..2, u \in 0..2, r \in 0..1 :
       arg = Some(GapArgsAt(sp, cu, a, m, o, t, pm, u, r))

\* gap_analysis = self._analyze_gaps(parties, financial_details, payment_structure, sla_terms)
analyze_gaps ==
  /\ ret = None
  /\ ret' = Some(_analyze_gaps(arg[1].parties, arg[1].financial_details,
                               arg[1].payment_structure, arg[1].sla_terms))
  /\ UNCHANGED <<contracts, files, contract_data, task, reader, upload_reply, arg>>

NextGaps == analyze_gaps

SpecGaps == InitGaps /\ [][NextGaps]_vars

---------------------------------------------------------------------------
\* The end of the pipeline on sub-records of every shape: parse_contract's gap analysis
\* and process_contract's score of the record built from the same four sub-records

InitAnalyzeScore ==
  /\ SysInit
  /\ ret = None
  /\ \E sp \in 0..9, cu \in 0..9, a \in 0..2, m \in 0..2, o \in {0, 2}, t \in 0..2,
        pm \in {0, 2}, u \in 0..2, r \in 0..1 :
       arg = Some(GapArgsAt(sp, cu, a, m, o, t, pm, u, r))

\* gap_analysis = self._analyze_gaps(...); return ExtractedData(...);
\* confidence_score = self.pdf_parser.calculate_confidence_score(extracted_data)
analyze_and_score ==
  /\ ret = None
  /\ ret' = Some([gap_analysis |->
                    _analyze_gaps(arg[1].parties, arg[1].financial_details,
                                  arg[1].payment_structure, arg[1].sla_terms),
                  confidence_score |->
                    calculate_confidence_score(
                      ExtractedData([parties |-> Some(arg[1].parties),
                                     financial_details |-> Some(arg[1].financial_details),
                                     payment_structure |-> Some(arg[1].payment_structure),
                                     account_info |-> Some(AccountInfo(NoKw)),
                                     revenue_classification |->
                                       Some(RevenueClassification(NoKw)),
                                     sla_terms |-> Some(arg[1].sla_terms)]))])
  /\ UNCHANGED <<contracts, files, contract_data, task, reader, upload_reply, arg>>

NextAnalyzeScore == analyze_and_score

SpecAnalyzeScore == InitAnalyzeScore /\ [][NextAnalyzeScore]_vars

---------------------------------------------------------------------------
\* The extractors and the pipeline applied to every text of at most MaxClauses clauses

SentenceIds == DOMAIN Sentence

Texts == UNION {[1..n -> SentenceIds] : n \in 0..MaxClauses}

\* the bytes of a readable PDF holding this text
pdf_of(text) == [size |-> 1024, readable |-> TRUE, text |-> text]

NoRuns == [sections |-> None, first |-> None, second |-> None]

InitExtract ==
  /\ SysInit
  /\ arg \in {Some(text) : text \in Texts}
  /\ ret = NoRuns

\* each of the six extractors on the text, and the gap analyzer on what they
\* returned when all of them returned
run_extractors ==
  /\ ret.sections = None
  /\ \E order \in Orders(pdf_of(arg[1])) :
       LET text == arg[1]
           parties == _extract_parties(text, order)
           financial_details == _extract_financial_details(text)
           payment_structure == _extract_payment_structure(text)
           sla_terms == _extract_sla_terms(text)
       IN ret' = [ret EXCEPT !.sections =
            Some([order |-> order,
                  parties |-> parties,
                  financial_details |-> financial_details,
                  payment_structure |-> payment_structure,
                  account_info |-> _extract_account_info(text),
                  revenue_classification |-> _extract_revenue_classification(text),
                  sla_terms |-> sla_terms,
                  gap_analysis |->
                    IF parties.raised \/ financial_details.raised
                       \/ payment_structure.raised \/ sla_terms.raised
                    THEN None
                    ELSE Some(_analyze_gaps(parties.value, financial_details.value,
                                            payment_structure.value, sla_terms.value))])]
  /\ UNCHANGED <<contracts, files, contract_data, task, reader, upload_reply, arg>>

\* parse_contract and, when it returned, calculate_confidence_score
run_pipeline(pdf_content, order) ==
  LET parsed == parse_contract(pdf_content, order)
  IN [parsed |-> parsed,
      confidence_score |->
        IF parsed.raised THEN None ELSE Some(calculate_confidence_score(parsed.value))]

\* a first run of the pipeline on the text
first_run ==
  /\ ret.sections # None
  /\ ret.first = None
  /\ \E order \in Orders(pdf_of(arg[1])) :
       ret' = [ret EXCEPT !.first = Some(run_pipeline(pdf_of(arg[1]), order))]
  /\ UNCHANGED <<contracts, files, contract_data, task, reader, upload_reply, arg>>

\* a second run of the pipeline on the same text, in another interpreter process
second_run ==
  /\ ret.first # None
  /\ ret.second = None
  /\ \E order \in Orders(pdf_of(arg[1])) :
       ret' = [ret EXCEPT !.second = Some(run_pipeline(pdf_of(arg[1]), order))]
  /\ UNCHANGED <<contracts, files, contract_data, task, reader, upload_reply, arg>>

NextExtract ==
  \/ run_extractors
  \/ first_run
  \/ second_run

SpecExtract == InitExtract /\ [][NextExtract]_vars

---------------------------------------------------------------------------
\* Properties

\* a field "holds" for the score table when bool(field) is true
RowPoints(d, row) ==
  LET fin == d.financial_details
      par == d.parties
      pay == d.payment_structure
      sla == d.sla_terms
      acc == d.account_info
      sp == IF par # None THEN par[1].service_provider ELSE None
      cu == IF par # None THEN par[1].customer ELSE None
      bc == IF acc # None THEN acc[1].billing_contact ELSE None
      holds ==
        CASE row = 1 -> fin # None /\ fin[1].annual_contract_value \notin {None, Some(Zero)}
          [] row = 2 -> fin # None /\ (\/ fin[1].monthly_costs \notin {None, Some(EmptyDict)}
                                       \/ fin[1].one_time_costs \notin {None, Some(EmptyDict)})
          [] row = 3 -> fin # None /\ fin[1].line_items \notin {None, Some(<<>>)}
          [] row = 4 -> sp # None /\ sp[1].name \notin {None, Some("")}
          [] row = 5 -> cu # None /\ cu[1].name \notin {None, Some("")}
          [] row = 6 -> \/ sp # None /\ sp[1].email \notin {None, Some("")}
                        \/ cu # None /\ cu[1].email \notin {None, Some("")}
          [] row = 7 -> pay # None /\ pay[1].payment_terms \notin {None, Some("")}
          [] row = 8 -> pay # None /\ pay[1].payment_method \notin {None, Some("")}
          [] row = 9 -> pay # None /\ pay[1].payment_schedule \notin {None, Some("")}
          [] row = 10 -> sla # None /\ sla[1].uptime_commitment \notin {None, Some("")}
          [] row = 11 -> sla # None /\ sla[1].response_times # None
          [] row = 12 -> sla # None /\ sla[1].performance_metrics # None
          [] row = 13 -> bc # None /\ bc[1].email \notin {None, Some("")}
          [] row = 14 -> bc # None /\ bc[1].phone \notin {None, Some("")}
      points == <<10, 10, 10, 10, 10, 5, 10, 5, 5, 5, 5, 5, 5, 5>>
  IN IF holds THEN points[row] ELSE 0

RECURSIVE TableSum(_, _)
TableSum(d, row) == IF row = 0 THEN 0 ELSE RowPoints(d, row) + TableSum(d, row - 1)

C2_NothingRaises ==
  /\ ret.sections # None =>
       /\ ~ret.sections[1].parties.raised
       /\ ~ret.sections[1].financial_details.raised
       /\ ~ret.sections[1].payment_structure.raised
       /\ ~ret.sections[1].account_info.raised
       /\ ~ret.sections[1].revenue_classification.raised
       /\ ~ret.sections[1].sla_terms.raised
       /\ ret.sections[1].gap_analysis # None
  /\ ret.first # None => ~ret.first[1].parsed.raised

\* C3: two runs of the pipeline on the same text return identical records and scores
C3_RunsAgree == ret.second # None => ret.first = ret.second

StatusOf(db, contract_id) == db[contract_id][1].status

C5_DataOnlyWhenCompleted ==
  /\ (reader.pc = "replied" /\ reader.contract # None
      /\ reader.contract[1].status # "completed") => reader.reply[1].status_code \in {400, 404}
  /\ (reader.reply # None /\ reader.reply[1].status_code = 200) =>
    LET contract_id == reader.contract_id[1]
    IN /\ contracts[contract_id] # None
       /\ StatusOf(contracts, contract_id) = "completed"
       /\ reader.reply[1].status = "completed"
       /\ find_contract_data(contract_data, contract_id) # None
       /\ reader.reply[1].extracted_data =
            find_contract_data(contract_data, contract_id)[1].extracted_data

\* C5: a reader got the data of a completed contract while another contract's task runs
C5_Witness ==
  /\ reader.reply # None /\ reader.reply[1].status_code = 200
  /\ \E contract_id \in ContractIds : task[contract_id].pc \in {"update70", "insert", "update100"}

\* C6 as stated: every failed job leaves its contract record failed with the error message
C6_FailureMarksContractFailed ==
  \A contract_id \in AllIds :
    task[contract_id].pc = "raised" =>
      /\ contracts[contract_id] # None
      /\ StatusOf(contracts, contract_id) = "failed"
      /\ contracts[contract_id][1].error_message = task[contract_id].error

\* C6: a job that failed after its contract record was found ends re-raised with the
\* record failed and carrying the error message; a job whose record was not found ends
\* re-raised with no record created; a failed job never goes on to complete
C6_FailureAfterFoundMarksFailed ==
  \A contract_id \in AllIds :
    /\ task[contract_id].error # None => task[contract_id].pc \in {"except", "raised"}
    /\ (task[contract_id].pc = "raised" /\ task[contract_id].contract # None) =>
         /\ contracts[contract_id] # None
         /\ StatusOf(contracts, contract_id) = "failed"
         /\ contracts[contract_id][1].error_message = task[contract_id].error
    /\ (task[contract_id].pc = "raised" /\ task[contract_id].contract = None) =>
         /\ contracts[contract_id] = None
         /\ task[contract_id].error = Some(fmt_not_found(contract_id))

\* C6: jobs ended failed after an unreadable file, a parsing failure and an insert failure
C6_Witness ==
  \E a, b \in ContractIds :
    /\ task[a].pc = "raised" /\ task[b].pc = "raised"
    /\ task[a].error = Some("connection closed")
    /\ task[b].error \in {Some("[Errno 2] No such file or directory"),
                          Some(fmt_parse_error("\"PaymentStructure\" object has no field \"discount_terms\""))}
    /\ StatusOf(contracts, a) = "failed" /\ StatusOf(contracts, b) = "failed"

\* the methods that must not run once text extraction failed
AfterText ==
  {"_extract_parties", "_extract_financial_details", "_extract_payment_structure",
   "_extract_account_info", "_extract_revenue_classification", "_extract_sla_terms",
   "_analyze_gaps", "calculate_confidence_score"}

\* the job of contract_id read a file PyPDF2 cannot read and went past parse_contract
ExtractionFailed(contract_id) ==
  /\ task[contract_id].file_content # None
  /\ ~task[contract_id].file_content[1].readable
  /\ task[contract_id].pc \notin {"update30", "parse"}

\* C7: when text extraction fails no extractor, gap analysis or scoring is invoked, no
\* result is persisted for the contract, and the job ends with the contract failed
C7_ExtractionFailureStopsPipeline ==
  \A contract_id \in AllIds :
    ExtractionFailed(contract_id) =>
      /\ \A i \in 1..Len(task[contract_id].invoked) : task[contract_id].invoked[i] \notin AfterText
      /\ task[contract_id].invoked = <<"_extract_text_from_pdf">>
      /\ find_contract_data(contract_data, contract_id) = None
      /\ task[contract_id].pc \in {"except", "raised"}
      /\ task[contract_id].pc = "raised" => StatusOf(contracts, contract_id) = "failed"

\* C7: a job whose text extraction failed has ended
C7_Witness ==
  \E contract_id \in ContractIds :
    /\ ExtractionFailed(contract_id)
    /\ task[contract_id].pc = "raised"
    /\ \E other \in ContractIds : find_contract_data(contract_data, other) # None

\* C8: the empty text parses to a record scored 0 in which every field is absent or at
\* its default, except response_times holding the four default durations and the
\* revenue type "mixed"
C8_EmptyTextScoresZero ==
  (arg = Some(<<>>) /\ ret.first # None) =>
    /\ ~ret.first[1].parsed.raised
    /\ ret.first[1].confidence_score = Some(0)
    /\ LET d == ret.first[1].parsed.value
       IN /\ d.parties = Some(Parties(NoKw))
          /\ d.account_info = Some(AccountInfo(NoKw))
          /\ d.financial_details =
               Some(FinancialDetails([total_monthly |-> Some(Zero), total_one_time |-> Some(Zero)]))
          /\ d.payment_structure = Some(PaymentStructure(NoKw))
          /\ d.revenue_classification = Some(RevenueClassification([type |-> Some("mixed")]))
          /\ d.sla_terms[1].uptime_commitment = None
          /\ d.sla_terms[1].performance_metrics = None
          /\ d.sla_terms[1].service_credits \in {None, Some(<<>>)}
          /\ d.sla_terms[1].response_times =
               Some([critical_issues |-> Some("1 hour"), high_priority |-> Some("4 hours"),
                     medium_priority |-> Some("8 hours"), low_priority |-> Some("24 hours")])

\* C9: after the SLA extractor ran, response_times has its four tiers populated, a tier
\* whose pattern did not match holds its default, and uptime_commitment is null when no
\* uptime phrase matched
C9_ResponseTimesPopulated ==
  ret.sections # None =>
    LET text == arg[1]
        sla_terms == ret.sections[1].sla_terms
        response_times == sla_terms.value.response_times
    IN /\ ~sla_terms.raised
       /\ response_times # None
       /\ response_times[1].critical_issues # None
       /\ response_times[1].high_priority # None
       /\ response_times[1].medium_priority # None
       /\ response_times[1].low_priority # None
       /\ FindAll(critical_matches_in, text) = <<>>
            => response_times[1].critical_issues = Some("1 hour")
       /\ FindAll(high_matches_in, text) = <<>>
            => response_times[1].high_priority = Some("4 hours")
       /\ FindAll(medium_matches_in, text) = <<>>
            => response_times[1].medium_priority = Some("8 hours")
       /\ FindAll(low_matches_in, text) = <<>>
            => response_times[1].low_priority = Some("24 hours")
       /\ FindAll(uptime_matches_in, text) = <<>> => sla_terms.value.uptime_commitment = None

Listed(names, name) == \E i \in 1..Len(names) : names[i] = name

\* a string field that is null or empty
NoText(o) == o \in {None, Some("")}

\* C10: missing_fields lists a required field exactly when it is absent and
\* incomplete_fields lists a party contact exactly when the party is present without an
\* email, and payment_method exactly when no payment method was extracted
C10_ListedIffAbsent ==
  ret # None =>
    LET service_provider == arg[1].parties.service_provider
        customer == arg[1].parties.customer
        financial_details == arg[1].financial_details
        missing == ret[1].missing_fields[1]
        incomplete == ret[1].incomplete_fields[1]
    IN /\ Listed(missing, "service_provider_name")
            <=> (service_provider = None \/ NoText(service_provider[1].name))
       /\ Listed(missing, "customer_name") <=> (customer = None \/ NoText(customer[1].name))
       /\ Listed(missing, "annual_contract_value")
            <=> financial_details.annual_contract_value = None
       /\ Listed(missing, "cost_breakdown")
            <=> (/\ financial_details.monthly_costs \in {None, Some(EmptyDict)}
                 /\ financial_details.one_time_costs \in {None, Some(EmptyDict)})
       /\ Listed(missing, "payment_terms") <=> NoText(arg[1].payment_structure.payment_terms)
       /\ Listed(missing, "uptime_commitment") <=> NoText(arg[1].sla_terms.uptime_commitment)
       /\ Listed(missing, "response_times") <=> arg[1].sla_terms.response_times = None
       /\ Listed(incomplete, "service_provider_contact")
            <=> (service_provider # None /\ NoText(service_provider[1].email))
       /\ Listed(incomplete, "customer_contact")
            <=> (customer # None /\ NoText(customer[1].email))
       /\ Listed(incomplete, "payment_method") <=> NoText(arg[1].payment_structure.payment_method)

---------------------------------------------------------------------------
\* Party resolution (C11, C12, C13)

\* the company that stands after the "Consultant:" label in the clauses that carry one
ConsultantLabel ==
  [SConsultant |-> "Acme Consulting LLC", SConsultantRun |-> "Acme Consulting LLC",
   SConsultantMay |-> "Mayfield Consulting LLC"]

\* the company that stands after the "Service Provider:" label
ServiceProviderLabel == [SProvider |-> "Gamma Services Ltd"]

\* the company that stands after the "Client:" label
ClientLabel == [SClient |-> "Beta Corp Inc"]

\* the company after the first occurrence of a label in the text, if the label occurs
FirstLabelled(label, text) ==
  IF \E i \in 1..Len(text) : text[i] \in DOMAIN label
  THEN LET i == CHOOSE k \in 1..Len(text) :
                  /\ text[k] \in DOMAIN label
                  /\ \A j \in 1..(k - 1) : text[j] \notin DOMAIN label
       IN Some(label[text[i]])
  ELSE None

\* the candidates of the deduplicated list that survive the filter, in list order
Survivors(order) ==
  SelectSeq([i \in 1..Len(order) |-> clean_company_name(order[i])], is_valid_company)

\* the name of a party, if the party is populated
NameOf(party) == IF party = None THEN None ELSE party[1].name

\* C11: the service-provider name is the company after "Consultant:" if that label
\* occurs, else the company after "Service Provider:", else the first surviving
\* candidate; the provider is absent only when all three are
C11_ProviderByPriority ==
  (ret.sections # None /\ ~ret.sections[1].parties.raised) =>
    LET text == arg[1]
        consultant == FirstLabelled(ConsultantLabel, text)
        provider == FirstLabelled(ServiceProviderLabel, text)
        survivors == Survivors(ret.sections[1].order)
        expected == IF consultant # None THEN consultant
                    ELSE IF provider # None THEN provider
                    ELSE IF survivors # <<>> THEN Some(survivors[1])
                    ELSE None
    IN NameOf(ret.sections[1].parties.value.service_provider) = expected

\* the first of the three relationship-phrase matches that is accepted, if any
FirstAccepted(text, service_provider_name) ==
  LET matches == <<SearchFirst(customer_pattern_1_in, text),
                   SearchFirst(customer_pattern_2_in, text),
                   SearchFirst(customer_pattern_3_in, text)>>
      accepted == SelectSeq(matches, LAMBDA m : accepts_customer(m, service_provider_name))
  IN IF accepted = <<>> THEN None ELSE Some(clean_company_name(accepted[1][1]))

\* C12: the customer name is the company after "Client:" if that label occurs, else the
\* first surviving candidate that differs from the resolved provider name whenever one
\* exists, else the first accepted relationship-phrase match
C12_CustomerByPriority ==
  (ret.sections # None /\ ~ret.sections[1].parties.raised) =>
    LET text == arg[1]
        service_provider_name == NameOf(ret.sections[1].parties.value.service_provider)
        client == FirstLabelled(ClientLabel, text)
        different == SelectSeq(Survivors(ret.sections[1].order),
                               LAMBDA c : Some(c) # service_provider_name)
        expected == IF client # None THEN client
                    ELSE IF different # <<>> THEN Some(different[1])
                    ELSE FirstAccepted(text, service_provider_name)
    IN NameOf(ret.sections[1].parties.value.customer) = expected

\* the n-th element of a list of matches, if there are that many
Nth(matches, n) == IF Len(matches) >= n THEN Some(matches[n]) ELSE None

\* the n-th address found, with its whitespace squeezed
NthAddress(addresses, n) == IF Len(addresses) >= n THEN Some(squeeze(addresses[n])) ELSE None

\* the party carries the n-th email, phone, address and tax id found in the text
CarriesNth(party, text, n) ==
  /\ party.email = Nth(FindAll(emails_in, text), n)
  /\ party.phone = Nth(FindAll(phones_in, text), n)
  /\ party.address = NthAddress(FindAll(addresses_in, text), n)
  /\ party.tax_id = Nth(FindAll(tax_ids_in, text), n)

TimesIs(unit_price, n, total) == unit_price.num * n * total.den = total.num * unit_price.den

\* the line item is the one the statement gives for "<Service>: <N> hours ($<total>)"
IsHourlyItem(item, n, total) ==
  /\ item.quantity = Some(n)
  /\ item.unit = Some("hour")
  /\ item.monthly_total = Some(total)
  /\ item.unit_price # None
  /\ IF n > 0 THEN TimesIs(item.unit_price[1], n, total) ELSE item.unit_price[1] = Zero

\* C14: every match of "<Service>: <N> hours ($<total>)" yields a line item with
\* quantity N, unit "hour", monthly_total the total, and unit_price total / N when N > 0
\* and 0 when N = 0
C14_HourlyLineItems ==
  (ret.sections # None /\ ~ret.sections[1].financial_details.raised) =>
    LET financial == ret.sections[1].financial_details.value
        hourly_matches == FindAll(hourly_matches_in, arg[1])
        first == Len(FindAll(service_matches_in, arg[1]))
    IN hourly_matches # <<>> =>
         /\ financial.line_items # None
         /\ Len(financial.line_items[1]) = first + Len(hourly_matches)
         /\ \A i \in 1..Len(hourly_matches) :
              IsHourlyItem(financial.line_items[1][first + i],
                           DigitsValue(hourly_matches[i].hours),
                           float(replace_commas(hourly_matches[i].total)))

\* C14: a text with a 10-hour match of total 1000 and a 0-hour match has been extracted:
\* the unit prices are 100 and 0
C14_Witness ==
  /\ ret.sections # None
  /\ ~ret.sections[1].financial_details.raised
  /\ LET financial == ret.sections[1].financial_details.value
     IN /\ financial.line_items # None
        /\ \E i, j \in 1..Len(financial.line_items[1]) :
             /\ financial.line_items[1][i].quantity = Some(10)
             /\ financial.line_items[1][i].monthly_total = Some(Q(1000, 1))
             /\ financial.line_items[1][i].unit_price = Some(Q(100, 1))
             /\ financial.line_items[1][j].quantity = Some(0)
             /\ financial.line_items[1][j].monthly_total = Some(Q(500, 1))
             /\ financial.line_items[1][j].unit_price = Some(Zero)

\* the sum of the amounts of a cost mapping of the record, 0 for an absent mapping
RECURSIVE TotalOver(_, _)
TotalOver(costs, keys) ==
  IF keys = {} THEN Zero
  ELSE LET k == CHOOSE x \in keys : TRUE
       IN QAdd(TotalOver(costs, keys \ {k}), costs[k])

MappingTotal(mapping) == IF mapping = None THEN Zero ELSE TotalOver(mapping[1], DOMAIN mapping[1])

\* C15: after the financial extractor has run, total_monthly is the sum of the monthly
\* cost mapping and total_one_time the sum of the one-time cost mapping, 0 and never
\* null for an empty mapping, and neither is negative
C15_TotalsAreSums ==
  (ret.sections # None /\ ~ret.sections[1].financial_details.raised) =>
    LET financial == ret.sections[1].financial_details.value
    IN /\ financial.total_monthly = Some(MappingTotal(financial.monthly_costs))
       /\ financial.total_one_time = Some(MappingTotal(financial.one_time_costs))
       /\ financial.total_monthly[1].num >= 0
       /\ financial.total_one_time[1].num >= 0
       /\ financial.monthly_costs # None => DOMAIN financial.monthly_costs[1] # {}
       /\ financial.one_time_costs # None => DOMAIN financial.one_time_costs[1] # {}

\* C15: a text with a setup fee of 300 and a fixed-fee service of 5000 and no monthly
\* total has been extracted: total_one_time is 5300 and total_monthly is 0
C15_Witness ==
  /\ ret.sections # None
  /\ ~ret.sections[1].financial_details.raised
  /\ LET financial == ret.sections[1].financial_details.value
     IN /\ financial.one_time_costs # None
        /\ Cardinality(DOMAIN financial.one_time_costs[1]) = 2
        /\ financial.total_one_time = Some(Q(5300, 1))
        /\ financial.monthly_costs = None
        /\ financial.total_monthly = Some(Zero)

\* C16: annual_contract_value is the first explicit annual or yearly amount when one
\* matches; otherwise, when total_monthly > 0, total_monthly times the first matched
\* contract term in months, 12 when no term matches; otherwise absent
C16_AnnualContractValue ==
  (ret.sections # None /\ ~ret.sections[1].financial_details.raised) =>
    LET financial == ret.sections[1].financial_details.value
        annual_matches == FindAll(annual_matches_in, arg[1])
        term_matches == FindAll(term_matches_in, arg[1])
        months == IF term_matches # <<>> THEN DigitsValue(term_matches[1]) ELSE 12
        total_monthly == financial.total_monthly[1]
        annual == financial.annual_contract_value
    IN IF annual_matches # <<>>
       THEN annual = Some(float(replace_commas(annual_matches[1])))
       ELSE IF total_monthly.num > 0
            THEN /\ annual # None
                 /\ annual[1].num * total_monthly.den = total_monthly.num * months * annual[1].den
            ELSE annual = None

\* C16: a monthly total of 2000 with a 24-month term and no explicit annual amount has
\* been extracted: the annual contract value is 48000
C16_Witness ==
  /\ ret.sections # None
  /\ ~ret.sections[1].financial_details.raised
  /\ FindAll(annual_matches_in, arg[1]) = <<>>
  /\ FindAll(term_matches_in, arg[1]) # <<>>
  /\ ret.sections[1].financial_details.value.total_monthly = Some(Q(2000, 1))
  /\ ret.sections[1].financial_details.value.annual_contract_value = Some(Q(48000, 1))

\* the number written in the sentence's payment/due phrase
DuePhraseNumber == [SDue30 |-> "30"]

\* the number written in the sentence's "Net N days" phrase
NetPhraseNumber == [SNet45 |-> "45"]

\* "Net <n> days"
NetDays(n) == CASE n = "45" -> "Net 45 days" [] n = "30" -> "Net 30 days"

\* the phrase numbers of the text, in text order
PhraseNumbers(number, text) ==
  LET hits == SelectSeq(text, LAMBDA s : s \in DOMAIN number)
  IN [i \in 1..Len(hits) |-> number[hits[i]]]

\* C17: payment_terms is "Net N days" for the first "Net N days" phrase of the text;
\* without one, "Net M days" for the number M of the first payment/due phrase counted in
\* days or months; without either, null
C17_PaymentTerms ==
  (ret.sections # None /\ ~ret.sections[1].payment_structure.raised) =>
    LET net == PhraseNumbers(NetPhraseNumber, arg[1])
        due == PhraseNumbers(DuePhraseNumber, arg[1])
        expected == IF net # <<>> THEN Some(NetDays(net[1]))
                    ELSE IF due # <<>> THEN Some(NetDays(due[1]))
                    ELSE None
    IN ret.sections[1].payment_structure.value.payment_terms = expected

\* one of the sentences appears in the text
Appears(sentences, text) == \E i \in 1..Len(text) : text[i] \in sentences

\* the sentences that contain recurring, subscription, monthly, quarterly or annual
WordRecurring == {"SMonthlyTotal", "SAnnualValue", "SAnnualZero", "SBilledQuarterly", "SInvoicedAnnually"}

\* the sentences that contain one-time, single payment or lump sum
WordOneTime == {"SLumpSum"}

\* the sentences that contain "one" and "time" with at most one character between them,
\* single payment or lump sum
PhraseOneTime == {"SLumpSum", "SOneTimeCharge"}

\* the sentences that contain the word monthly, quarterly, annual
WordMonthly == {"SMonthlyTotal"}

WordQuarterly == {"SBilledQuarterly"}

WordAnnual == {"SAnnualValue", "SAnnualZero", "SInvoicedAnnually"}

\* the sentences that contain monthly or per month; quarterly or per quarter; annually,
\* yearly or per year
PhraseMonthly == {"SMonthlyTotal", "SPerMonth"}

PhraseQuarterly == {"SBilledQuarterly"}

PhraseAnnually == {"SInvoicedAnnually"}

\* the revenue classification extracted from the text is of this type and billing cycle
Classified(type, billing_cycle) ==
  /\ ret.sections[1].revenue_classification.value.type = Some(type)
  /\ ret.sections[1].revenue_classification.value.billing_cycle = billing_cycle

\* C18: the revenue type is "recurring" whenever recurring, subscription, monthly,
\* quarterly or annual appears, else "one-time" whenever one-time, single payment or lump
\* sum appears, else "mixed"; billing_cycle is the first of monthly, quarterly, annual
\* whose own word appears, else null
C18_TypeAndCycleByWord ==
  (ret.sections # None /\ ~ret.sections[1].revenue_classification.raised) =>
    Classified(IF Appears(WordRecurring, arg[1]) THEN "recurring"
               ELSE IF Appears(WordOneTime, arg[1]) THEN "one-time"
               ELSE "mixed",
               IF Appears(WordMonthly, arg[1]) THEN Some("monthly")
               ELSE IF Appears(WordQuarterly, arg[1]) THEN Some("quarterly")
               ELSE IF Appears(WordAnnual, arg[1]) THEN Some("annual")
               ELSE None)

\* C18 (amended): the revenue type is one of recurring, one-time, mixed: "recurring"
\* whenever recurring, subscription, monthly, quarterly or annual appears, else "one-time"
\* whenever "one" and "time" with at most one character between them, single payment or
\* lump sum appears, else "mixed"; billing_cycle is "monthly" when monthly or per month
\* appears, else "quarterly" when quarterly or per quarter appears, else "annual" when
\* annually, yearly or per year appears, else null
C18_TypeAndCycleByPhrase ==
  (ret.sections # None /\ ~ret.sections[1].revenue_classification.raised) =>
    Classified(IF Appears(WordRecurring, arg[1]) THEN "recurring"
               ELSE IF Appears(PhraseOneTime, arg[1]) THEN "one-time"
               ELSE "mixed",
               IF Appears(PhraseMonthly, arg[1]) THEN Some("monthly")
               ELSE IF Appears(PhraseQuarterly, arg[1]) THEN Some("quarterly")
               ELSE IF Appears(PhraseAnnually, arg[1]) THEN Some("annual")
               ELSE None)

\* C18: a text in which the word annual appears, but none of the billing-cycle phrases,
\* has been classified: the type is recurring and the billing cycle is null
C18_Witness ==
  /\ ret.sections # None
  /\ ~ret.sections[1].revenue_classification.raised
  /\ Appears({"SAnnualValue"}, arg[1])
  /\ ~Appears(PhraseMonthly \cup PhraseQuarterly \cup PhraseAnnually, arg[1])
  /\ Classified("recurring", None)

\* C19: the aggregate record parse_contract returns for a text carries the six
\* sub-records and the gap analysis computed from them
C19_AggregateCarriesGapAnalysis ==
  (ret.first # None /\ ~ret.first[1].parsed.raised) =>
    LET data == ret.first[1].parsed.value
    IN /\ data.parties # None /\ data.financial_details # None
       /\ data.payment_structure # None /\ data.account_info # None
       /\ data.revenue_classification # None /\ data.sla_terms # None
       /\ "gap_analysis" \in DOMAIN data
       /\ data.gap_analysis = Some(_analyze_gaps(data.parties[1], data.financial_details[1],
                                                 data.payment_structure[1], data.sla_terms[1]))

\* C20: in every reachable state each persisted result document's confidence_score is
\* the scoring function applied to that document's extracted data
C20_StoredScoreIsConsistent ==
  \A i \in 1..Len(contract_data) :
    contract_data[i].confidence_score = calculate_confidence_score(contract_data[i].extracted_data)

\* C20: a result document with a positive score is stored, its contract is completed and
\* a reader has been answered with it
C20_Witness ==
  \E i \in 1..Len(contract_data) :
    /\ contract_data[i].confidence_score > 0
    /\ contracts[contract_data[i].contract_id] # None
    /\ StatusOf(contracts, contract_data[i].contract_id) = "completed"
    /\ reader.reply # None /\ reader.reply[1].status_code = 200
    /\ reader.contract_id = Some(contract_data[i].contract_id)

\* the result documents stored for a contract
DataOf(collection, contract_id) == SelectSeq(collection, LAMBDA doc : doc.contract_id = contract_id)

\* the records parse_contract can return for a stored file
ParsedOf(pdf_content) == {parse_contract(pdf_content, order) : order \in Orders(pdf_content)}

\* a finished job left what its own file alone determines: completed at progress 100 with
\* the one result document parsed and scored from that file, or failed with its own error
\* and no result document
FinalAsAlone(contract_id) ==
  /\ task[contract_id].pc = "done" =>
       /\ StatusOf(contracts, contract_id) = "completed"
       /\ contracts[contract_id][1].progress = 100
       /\ contracts[contract_id][1].error_message = None
       /\ \E parsed \in ParsedOf(files[contracts[contract_id][1].file_path]) :
            /\ ~parsed.raised
            /\ DataOf(contract_data, contract_id) =
                 <<ContractDataModel_dict(contract_id, parsed.value,
                                          calculate_confidence_score(parsed.value))>>
  /\ task[contract_id].pc = "raised" =>
       /\ StatusOf(contracts, contract_id) = "failed"
       /\ contracts[contract_id][1].progress \in {10, 30, 70}
       /\ contracts[contract_id][1].error_message = task[contract_id].error
       /\ DataOf(contract_data, contract_id) = <<>>

\* a step of one contract's task leaves every other contract's record, result documents
\* and task as they were, and nothing changes those of a finished job
OtherContractsUntouched ==
  \A a \in AllIds :
    /\ (task'[a] # task[a]) =>
         \A b \in AllIds \ {a} :
           /\ contracts'[b] = contracts[b]
           /\ task'[b] = task[b]
           /\ DataOf(contract_data', b) = DataOf(contract_data, b)
    /\ task[a].pc \in {"done", "raised"} =>
         /\ contracts'[a] = contracts[a]
         /\ task'[a] = task[a]
         /\ DataOf(contract_data', a) = DataOf(contract_data, a)

\* C21: however the tasks of different contracts interleave, a finished job has the
\* status, progress and result record its own file determines, and no step of one
\* contract's task changes another contract's record, task or result documents
C21_TasksDoNotInterfere ==
  /\ [](\A a \in ContractIds : FinalAsAlone(a))
  /\ [][OtherContractsUntouched]_vars

\* C21: two contracts are processed at the same time: the first has its result inserted
\* and is not yet completed while the second's parse failed and is not yet marked failed
C21_Witness ==
  /\ task["id-1"].pc = "update100"
  /\ task["id-2"].pc = "except"
  /\ StatusOf(contracts, "id-1") = "processing"
  /\ StatusOf(contracts, "id-2") = "processing"
  /\ contracts["id-1"][1].progress = 70
  /\ contracts["id-2"][1].progress = 30

\* the upload answered with this reply was refused by the validation
Rejected(reply) == reply # None /\ reply[1].status_code = 400

\* the upload answered with this reply was accepted
Accepted(reply) == reply # None /\ reply[1].status_code = 200

\* the step created this contract's record, pending at progress 0, for a file that
\* passes the validation, stored that file, and created the contract's task, which has
\* not run yet; nothing else changed
CreatedPending(contract_id) ==
  /\ contracts[contract_id] = None
  /\ task[contract_id] = NoTask
  /\ contracts'[contract_id] # None
  /\ contracts'[contract_id][1].status = "pending"
  /\ contracts'[contract_id][1].progress = 0
  /\ contracts'[contract_id][1].error_message = None
  /\ contracts'[contract_id][1].filename \in {"contract.pdf", "CONTRACT.PDF"}
  /\ contracts'[contract_id][1].file_size \in 1..max_file_size
  /\ files' = Append(files, files'[contracts'[contract_id][1].file_path])
  /\ contracts'[contract_id][1].file_path = Len(files')
  /\ files'[Len(files')].size = contracts'[contract_id][1].file_size
  /\ task'[contract_id] = [NoTask EXCEPT !.pc = "update10"]
  /\ \A other \in AllIds \ {contract_id} :
       contracts'[other] = contracts[other] /\ task'[other] = task[other]
  /\ contract_data' = contract_data

\* C22: an upload refused by the validation leaves the files, the contract records, the
\* tasks and the results unchanged; an accepted upload stores a file that passes the
\* validation and creates exactly one contract record, pending at progress 0, before
\* its task takes a step
C22_UploadFrame ==
  [][(upload_reply' # upload_reply) =>
       /\ Rejected(upload_reply') => UNCHANGED <<contracts, files, task, contract_data>>
       /\ Accepted(upload_reply') => CreatedPending(upload_reply'[1].contract_id)]_vars

\* C22: an upload was refused after another one had been accepted
C22_Witness ==
  /\ Rejected(upload_reply)
  /\ upload_reply[1].detail = "File is empty"
  /\ Len(files) = 1
  /\ contracts["id-1"] # None
  /\ StatusOf(contracts, "id-1") = "pending"
  /\ contracts["id-2"] = None

\* the note that states n missing fields, and the note that states n incomplete fields
MissingNote ==
  <<"Contract is missing 1 critical fields", "Contract is missing 2 critical fields",
    "Contract is missing 3 critical fields", "Contract is missing 4 critical fields",
    "Contract is missing 5 critical fields", "Contract is missing 6 critical fields",
    "Contract is missing 7 critical fields">>

IncompleteNote ==
  <<"Contract has 1 incomplete sections", "Contract has 2 incomplete sections",
    "Contract has 3 incomplete sections">>

AffirmativeNote == "Contract appears to be comprehensive with all major sections present"

\* C23: the gap analysis notes are never null; with both lists empty they are the single
\* affirmative note; otherwise they state the number of missing fields when there are
\* some and the number of incomplete fields when there are some, each the length of its
\* list, and the affirmative note is not among them
C23_NotesStateCounts ==
  ret # None =>
    LET missing_fields == ret[1].missing_fields[1]
        incomplete_fields == ret[1].incomplete_fields[1]
    IN /\ ret[1].notes # None
       /\ ret[1].notes[1] =
            IF missing_fields = <<>> /\ incomplete_fields = <<>> THEN <<AffirmativeNote>>
            ELSE (IF missing_fields # <<>> THEN <<MissingNote[Len(missing_fields)]>> ELSE <<>>)
                 \o (IF incomplete_fields # <<>>
                     THEN <<IncompleteNote[Len(incomplete_fields)]>> ELSE <<>>)

\* C23: sub-records with nothing missing and nothing incomplete have been analyzed
C23_Witness ==
  /\ ret # None
  /\ ret[1].missing_fields = Some(<<>>)
  /\ ret[1].incomplete_fields = Some(<<>>)
  /\ ret[1].notes = Some(<<AffirmativeNote>>)

\* the elements of a list
Elements(list) == {list[i] : i \in 1..Len(list)}

\* C24: the SLA extractor supplies a response_times value on every text, and the gap
\* analysis made from the extractors' output never lists "response_times" as missing
C24_ResponseTimesNeverMissing ==
  ret.sections # None =>
    /\ ~ret.sections[1].sla_terms.raised
    /\ ret.sections[1].sla_terms.value.response_times # None
    /\ ret.sections[1].gap_analysis # None =>
         "response_times" \notin Elements(ret.sections[1].gap_analysis[1].missing_fields[1])

\* C24: the gap analysis of the empty text lists the six other required fields
C24_Witness ==
  /\ arg = Some(<<>>)
  /\ ret.sections # None
  /\ ret.sections[1].gap_analysis # None
  /\ ret.sections[1].gap_analysis[1].missing_fields =
       Some(<<"service_provider_name", "customer_name", "annual_contract_value",
              "cost_breakdown", "payment_terms", "uptime_commitment">>)

\* C25: a reader of GET /contracts/{id} is answered with the data, or with 400 naming a
\* status other than completed, or with 404 when the contract does not exist; it is
\* never answered 404 "Contract data not found" for a contract whose result record
\* exists
C25_NoDataNotFoundForStoredResult ==
  [][(reader.pc # "replied" /\ reader'.pc = "replied") =>
       \/ reader'.reply[1].status_code = 200
       \/ /\ reader'.reply[1].status_code = 400
          /\ reader'.reply[1].detail \in {fmt_not_completed(status) :
                                            status \in {"pending", "processing", "failed"}}
       \/ /\ reader'.reply[1].status_code = 404
          /\ reader'.reply[1].detail = "Contract not found"
          /\ contracts[reader.contract_id[1]] = None]_vars

\* C26: in every reachable state no contract has more than one result record, and a
\* contract whose status is completed has exactly one
C26_OneResultPerCompletedContract ==
  \A contract_id \in AllIds :
    /\ Len(DataOf(contract_data, contract_id)) <= 1
    /\ (contracts[contract_id] # None /\ StatusOf(contracts, contract_id) = "completed") =>
         Len(DataOf(contract_data, contract_id)) = 1

\* C26: two contracts are completed, each with its one result record
C26_Witness ==
  /\ contracts["id-1"] # None /\ StatusOf(contracts, "id-1") = "completed"
  /\ contracts["id-2"] # None /\ StatusOf(contracts, "id-2") = "completed"
  /\ Len(contract_data) = 2
  /\ Len(DataOf(contract_data, "id-1")) = 1
  /\ Len(DataOf(contract_data, "id-2")) = 1

\* the progress of a contract record
ProgressOf(db, contract_id) == db[contract_id][1].progress

\* every record's progress is one of the five values, and is 100 exactly when the status
\* is completed
ProgressValues ==
  \A contract_id \in AllIds :
    contracts[contract_id] # None =>
      /\ ProgressOf(contracts, contract_id) \in {0, 10, 30, 70, 100}
      /\ ProgressOf(contracts, contract_id) = 100 <=> StatusOf(contracts, contract_id) = "completed"

\* no step lowers a record's progress, and the step that marks a contract failed leaves
\* its progress as it was
ProgressSteps ==
  \A contract_id \in AllIds :
    contracts[contract_id] # None =>
      /\ contracts'[contract_id] # None
      /\ ProgressOf(contracts', contract_id) >= ProgressOf(contracts, contract_id)
      /\ (StatusOf(contracts', contract_id) = "failed"
          /\ StatusOf(contracts, contract_id) # "failed") =>
           ProgressOf(contracts', contract_id) = ProgressOf(contracts, contract_id)

\* C27: a contract's progress only takes the values 0, 10, 30, 70, 100 and never
\* decreases, is 100 exactly when the status is completed, and a contract that becomes
\* failed keeps the progress it had reached
C27_ProgressMonotone == []ProgressValues /\ [][ProgressSteps]_vars

\* C27: one contract failed at progress 30 while another one is completed at 100
C27_Witness ==
  \E failed, completed \in ContractIds :
    /\ contracts[failed] # None /\ contracts[completed] # None
    /\ StatusOf(contracts, failed) = "failed"
    /\ ProgressOf(contracts, failed) = 30
    /\ StatusOf(contracts, completed) = "completed"
    /\ ProgressOf(contracts, completed) = 100

\* C28: with every task fairly scheduled and the status updates taking effect, every
\* contract accepted by upload eventually has status completed or failed
C28_EveryContractSettles ==
  \A contract_id \in ContractIds :
    (contracts[contract_id] # None) ~>
      (contracts[contract_id] # None
       /\ StatusOf(contracts, contract_id) \in {"completed", "failed"})

\* C28: one contract ended failed because the result could not be inserted and another
\* because its file could not be read
C28_Witness ==
  \E a, b \in ContractIds :
    /\ task[a].pc = "raised" /\ task[a].error = Some("connection closed")
    /\ task[b].pc = "raised" /\ task[b].error = Some("[Errno 2] No such file or directory")
    /\ StatusOf(contracts, a) = "failed"
    /\ StatusOf(contracts, b) = "failed"

\* C29: when the party extractor populates both the service provider and the customer,
\* their names are different strings
C29_PartiesAreNamedDifferently ==
  (ret.sections # None /\ ~ret.sections[1].parties.raised) =>
    LET parties == ret.sections[1].parties.value
    IN (parties.service_provider # None /\ parties.customer # None) =>
         parties.service_provider[1].name # parties.customer[1].name

\* C30: whenever the gap analysis of the sub-records lists no missing field, the
\* confidence score of the record built from the same sub-records is at least 60
C30_NothingMissingScoresSixty ==
  (ret # None /\ ret[1].gap_analysis.missing_fields = Some(<<>>)) =>
    ret[1].confidence_score >= 60

\* C30: nothing is missing and the score is exactly 60: no payment method, no party
\* email, and none of the fields the gap analysis does not look at
C30_Witness ==
  /\ ret # None
  /\ ret[1].gap_analysis.missing_fields = Some(<<>>)
  /\ ret[1].gap_analysis.incomplete_fields =
       Some(<<"service_provider_contact", "customer_contact", "payment_method">>)
  /\ ret[1].confidence_score = 60

=============================================================================
